---- MODULE Spec2Model ----
(***************************************************************************)
(* The note store of second-brain: the HTTP handlers under /api/notes      *)
(* (tree, content, create, update, rename, delete, move) acting on the     *)
(* notes directory, and the notes pane of the client that drives them.     *)
(*                                                                         *)
(* A string is a sequence of one-character strings, so that the path and   *)
(* filename functions (path.join, path.resolve, path.normalize, String     *)
(* startsWith / endsWith / includes / replace / trim) are computed the way *)
(* Node computes them on a POSIX host (path.sep = "/").                    *)
(***************************************************************************)
EXTENDS Integers, Sequences, FiniteSets, TLC

VARIABLES
  fs,             \* the disk
  last,           \* the request or user action just handled, with its outcome
  prev,           \* the disk and the notes pane as they were before it
  fileTree,       \* notes pane: the tree listing it shows
  selectedNote,   \* notes pane: the path of the selected note
  editorContent,  \* notes pane: the editor buffer
  hasChanges,     \* notes pane: the dirty flag
  flight,         \* notes pane: the handlers that await a response
  chat,           \* chat pane: the save dialog and the saving indicator
  pc              \* the step reached in the create-to-delete scenario

client == <<fileTree, selectedNote, editorContent, hasChanges, flight, chat>>

vars == <<fs, prev, last, fileTree, selectedNote, editorContent, hasChanges, flight, chat, pc>>

-----------------------------------------------------------------------------
\* the element of a one-element set; in the({e(x) : x \in {v}}) the value v is
\* worked out once and e is worked out on it
the(S) == CHOOSE x \in S : TRUE

-----------------------------------------------------------------------------
(* Strings *)

SEP == "/"

IsPrefix(p, s) == Len(p) <= Len(s) /\ SubSeq(s, 1, Len(p)) = p

\* String.prototype.startsWith
startsWith(s, p) == IsPrefix(p, s)

\* String.prototype.endsWith
endsWith(s, p) == Len(p) <= Len(s) /\ SubSeq(s, Len(s) - Len(p) + 1, Len(s)) = p

\* String.prototype.includes
includes(s, p) == \E i \in 1..(Len(s) - Len(p) + 1) : SubSeq(s, i, i + Len(p) - 1) = p

\* String.prototype.replace(/[set]/g, ""): drop every character of the set
RECURSIVE stripChars(_, _)
stripChars(s, set) ==
  IF s = <<>> THEN <<>>
  ELSE IF Head(s) \in set THEN stripChars(Tail(s), set)
  ELSE <<Head(s)>> \o stripChars(Tail(s), set)

RECURSIVE dropLeading(_, _)
dropLeading(s, set) ==
  IF s # <<>> /\ Head(s) \in set THEN dropLeading(Tail(s), set) ELSE s

RECURSIVE dropTrailing(_, _)
dropTrailing(s, set) ==
  IF s # <<>> /\ s[Len(s)] \in set THEN dropTrailing(SubSeq(s, 1, Len(s) - 1), set) ELSE s

WhiteSpace == {" ", "\n"}

\* String.prototype.trim
trim(s) == dropTrailing(dropLeading(s, WhiteSpace), WhiteSpace)

\* String.prototype.split("/")
RECURSIVE split(_)
split(s) ==
  IF \A i \in 1..Len(s) : s[i] # SEP THEN <<s>>
  ELSE LET i == CHOOSE k \in 1..Len(s) : s[k] = SEP /\ \A j \in 1..(k - 1) : s[j] # SEP
       IN <<SubSeq(s, 1, i - 1)>> \o split(SubSeq(s, i + 1, Len(s)))

\* Array.prototype.join("/")
RECURSIVE joinSegs(_)
joinSegs(segs) ==
  IF segs = <<>> THEN <<>>
  ELSE IF Len(segs) = 1 THEN segs[1]
  ELSE segs[1] \o <<SEP>> \o joinSegs(Tail(segs))

-----------------------------------------------------------------------------
(* Node's path module, POSIX flavour *)

DOT == <<".">>
DOTDOT == <<".", ".">>

\* normalizeString: resolves "." and ".." segments; segs is the path split at "/",
\* acc the segments kept so far
RECURSIVE normalizeSegs(_, _, _)
normalizeSegs(segs, acc, allowAboveRoot) ==
  IF segs = <<>> THEN acc
  ELSE LET s == Head(segs)
           rest == Tail(segs)
       IN IF s = <<>> \/ s = DOT THEN normalizeSegs(rest, acc, allowAboveRoot)
          ELSE IF s = DOTDOT
            THEN IF acc # <<>> /\ acc[Len(acc)] # DOTDOT
                   THEN normalizeSegs(rest, SubSeq(acc, 1, Len(acc) - 1), allowAboveRoot)
                 ELSE IF allowAboveRoot
                   THEN normalizeSegs(rest, Append(acc, s), allowAboveRoot)
                 ELSE normalizeSegs(rest, acc, allowAboveRoot)
          ELSE normalizeSegs(rest, Append(acc, s), allowAboveRoot)

normalizeString(p, allowAboveRoot) == joinSegs(normalizeSegs(split(p), <<>>, allowAboveRoot))

isAbsolute(p) == p # <<>> /\ p[1] = SEP

\* path.normalize
normalize(p) ==
  IF p = <<>> THEN DOT
  ELSE LET abs == isAbsolute(p)
           trailing == p[Len(p)] = SEP
           n == normalizeString(p, ~abs)
       IN IF n = <<>>
            THEN IF abs THEN <<SEP>> ELSE IF trailing THEN DOT \o <<SEP>> ELSE DOT
          ELSE (IF abs THEN <<SEP>> ELSE <<>>) \o n \o (IF trailing THEN <<SEP>> ELSE <<>>)

\* path.join(a, b)
join(a, b) ==
  IF a = <<>> /\ b = <<>> THEN DOT
  ELSE IF a = <<>> THEN normalize(b)
  ELSE IF b = <<>> THEN normalize(a)
  ELSE normalize(a \o <<SEP>> \o b)

\* path.resolve(base, p) for an absolute base
resolve(base, p) ==
  LET joined == IF isAbsolute(p) THEN p
                ELSE IF p = <<>> THEN base
                ELSE base \o <<SEP>> \o p
  IN <<SEP>> \o normalizeString(joined, FALSE)

\* path.dirname
dirname(p) ==
  IF p = <<>> THEN DOT
  ELSE LET hasRoot == p[1] = SEP
           \* Node scans from the end for the first slash met after a non-slash
           cands == {i \in 2..Len(p) : p[i] = SEP /\ \E j \in (i + 1)..Len(p) : p[j] # SEP}
       IN IF cands = {} THEN (IF hasRoot THEN <<SEP>> ELSE DOT)
          ELSE LET e == CHOOSE i \in cands : \A j \in cands : j <= i
               IN IF hasRoot /\ e = 2 THEN <<SEP, SEP>> ELSE SubSeq(p, 1, e - 1)

\* path.basename
basename(p) ==
  LET q == dropTrailing(p, {SEP})
      segs == split(q)
  IN IF q = <<>> THEN <<>> ELSE segs[Len(segs)]

-----------------------------------------------------------------------------
(* The disk.  fs maps the absolute path of every existing file and directory   *)
(* to [type, content]; the parent of every entry but "/" is a directory of fs. *)

File(c) == [type |-> "file", content |-> c]
Dir == [type |-> "dir", content |-> <<>>]

ROOT == <<SEP>>

\* the path without its trailing separators ("/" stays "/")
noTrail(p) == LET q == dropTrailing(p, {SEP}) IN IF q = <<>> THEN ROOT ELSE q

hasTrail(p) == Len(p) > 1 /\ p[Len(p)] = SEP

\* a/b for an absolute directory a and a name b
child(a, b) == IF a = ROOT THEN a \o b ELSE a \o <<SEP>> \o b

\* q lies strictly below directory path a
below(a, q) == q # a /\ IsPrefix(IF a = ROOT THEN a ELSE a \o <<SEP>>, q)

\* errno of resolving path p on disk f: "OK", "ENOENT" or "ENOTDIR"
errno(f, p) ==
  LET q == noTrail(p)
  IN IF q \in DOMAIN f
       THEN IF hasTrail(p) /\ f[q].type = "file" THEN "ENOTDIR" ELSE "OK"
     ELSE IF \E a \in DOMAIN f : f[a].type = "file" /\ below(a, q) THEN "ENOTDIR"
     ELSE "ENOENT"

\* fs.existsSync
existsSync(f, p) == errno(f, p) = "OK"

isDirectory(f, p) == existsSync(f, p) /\ f[noTrail(p)].type = "dir"
isFile(f, p) == existsSync(f, p) /\ f[noTrail(p)].type = "file"

\* fs.readdirSync: the paths of the entries of directory p
readdirSync(f, p) == {q \in DOMAIN f : q # ROOT /\ dirname(q) = noTrail(p)}

put(f, p, e) == [q \in DOMAIN f \cup {p} |-> IF q = p THEN e ELSE f[q]]
remove(f, gone) == [q \in DOMAIN f \ gone |-> f[q]]

\* the result of a file-system call: the disk after it and its error code
Res(f, code) == [fs |-> f, code |-> code]

\* open(2) of p for writing with O_CREAT
openErr(f, p) ==
  IF hasTrail(p) THEN (IF isDirectory(f, p) THEN "EISDIR" ELSE errno(f, dirname(noTrail(p))))
  ELSE IF p \in DOMAIN f THEN (IF f[p].type = "dir" THEN "EISDIR" ELSE "OK")
  ELSE IF errno(f, dirname(p)) # "OK" THEN errno(f, dirname(p))
  ELSE IF f[dirname(p)].type = "file" THEN "ENOTDIR"
  ELSE "OK"

\* fs.writeFile(p, content) with flag "w": creates or truncates
writeFile(f, p, content) ==
  IF openErr(f, p) # "OK" THEN Res(f, openErr(f, p))
  ELSE Res(put(f, p, File(content)), "OK")

\* writeFileExcl without the exclusive flag: an existing file is truncated
writeFileTruncating(f, p, content) == writeFile(f, p, content)

\* fs.writeFile(p, content, {flag: "wx"}): fails when p exists
writeFileExcl(f, p, content) ==
  IF existsSync(f, p) THEN Res(f, "EEXIST")
  ELSE writeFile(f, p, content)

\* fs.appendFile(p, content): flag "a", creates the file when it is absent
appendFile(f, p, content) ==
  IF openErr(f, p) # "OK" THEN Res(f, openErr(f, p))
  ELSE Res(put(f, p, File((IF p \in DOMAIN f THEN f[p].content ELSE <<>>) \o content)), "OK")

\* fs.unlinkSync
unlinkSync(f, p) ==
  IF errno(f, p) # "OK" THEN Res(f, errno(f, p))
  ELSE IF f[noTrail(p)].type = "dir" THEN Res(f, "EISDIR")
  ELSE Res(remove(f, {p}), "OK")

\* fs.rmdirSync
rmdirSync(f, p) ==
  IF errno(f, p) # "OK" THEN Res(f, errno(f, p))
  ELSE IF f[noTrail(p)].type = "file" THEN Res(f, "ENOTDIR")
  ELSE IF readdirSync(f, p) # {} THEN Res(f, "ENOTEMPTY")
  ELSE IF noTrail(p) = ROOT THEN Res(f, "EBUSY")
  ELSE Res(remove(f, {noTrail(p)}), "OK")

\* a rename that copies: the source stays where it was
renameLeavingSource(f, old, new) ==
  LET o == noTrail(old)
      n == noTrail(new)
      moved == {q \in DOMAIN f : q = o \/ below(o, q)}
      to(q) == n \o SubSeq(q, Len(o) + 1, Len(q))
  IN IF errno(f, old) # "OK" THEN Res(f, errno(f, old))
     ELSE IF errno(f, dirname(n)) # "OK" THEN Res(f, errno(f, dirname(n)))
     ELSE IF n \in DOMAIN f \/ below(o, n) THEN Res(f, "EINVAL")
     ELSE Res([q \in DOMAIN f \cup {to(m) : m \in moved} |->
                 IF q \in DOMAIN f THEN f[q]
                 ELSE f[CHOOSE m \in moved : to(m) = q]], "OK")

\* fs.renameSync onto a path where nothing exists: the entry and, for a
\* directory, everything below it move
renameSync(f, old, new) ==
  LET o == noTrail(old)
      n == noTrail(new)
      moved == {q \in DOMAIN f : q = o \/ below(o, q)}
      to(q) == n \o SubSeq(q, Len(o) + 1, Len(q))
  IN IF errno(f, old) # "OK" THEN Res(f, errno(f, old))
     ELSE IF errno(f, dirname(n)) # "OK" THEN Res(f, errno(f, dirname(n)))
     ELSE IF f[dirname(n)].type = "file" THEN Res(f, "ENOTDIR")
     ELSE IF f[o].type = "file" /\ hasTrail(new) THEN Res(f, "ENOTDIR")
     ELSE IF n = o THEN Res(f, "OK")
     ELSE IF below(o, n) THEN Res(f, "EINVAL")
     ELSE IF n \in DOMAIN f /\ f[n].type = "dir" /\ f[o].type = "file" THEN Res(f, "EISDIR")
     ELSE IF n \in DOMAIN f /\ f[n].type = "file" /\ f[o].type = "dir" THEN Res(f, "ENOTDIR")
     ELSE IF n \in DOMAIN f /\ f[n].type = "dir" /\ readdirSync(f, n) # {}
       THEN Res(f, "ENOTEMPTY")
     ELSE Res([q \in (DOMAIN f \ moved) \cup {to(m) : m \in moved} |->
                 IF \E m \in moved : to(m) = q
                   THEN f[CHOOSE m \in moved : to(m) = q]
                 ELSE f[q]], "OK")

\* the absolute paths of p and of its ancestors, "/" excluded
RECURSIVE ancestors(_)
ancestors(p) == IF p = ROOT \/ p = DOT THEN {} ELSE {p} \cup ancestors(dirname(p))

\* fs.mkdir(p, {recursive: true})
mkdirRecursive(f, p) ==
  IF \E a \in ancestors(p) : a \in DOMAIN f /\ f[a].type = "file" THEN Res(f, "ENOTDIR")
  ELSE Res([q \in DOMAIN f \cup ancestors(p) |-> IF q \in DOMAIN f THEN f[q] ELSE Dir], "OK")

-----------------------------------------------------------------------------
(* The handlers.  Each is a function of the disk and of the request, giving   *)
(* the disk after the request and the response: status, error or message text *)
(* and the payload (content, filename or tree; <<>> when there is none).      *)

\* process.cwd()
Cwd == <<"/", "w">>

MD == <<".", "m", "d">>

\* path.join(process.cwd(), "notes")
notesDir == join(Cwd, <<"n", "o", "t", "e", "s">>)

\* the ordering sidecar
metadataPath == join(notesDir, <<".", "m", "e", "t", "a", "d", "a", "t", "a", ".", "j", "s", "o", "n">>)

Reply(f, status, msg, out) == [fs |-> f, status |-> status, msg |-> msg, out |-> out]

\* validateNotePath: [ok, path] or [ok, msg]
validateNotePath(relativePath) ==
  LET cleanRelativePath == stripChars(relativePath, {"*", "?", "\"", "<", ">", "|"})
      intendedPath == resolve(notesDir, cleanRelativePath)
  IN IF ~startsWith(intendedPath, notesDir \o <<SEP>>) /\ intendedPath # notesDir
       THEN [ok |-> FALSE, msg |-> "Invalid file path: Path traversal attempt detected."]
     ELSE IF basename(cleanRelativePath) = DOT \/ basename(cleanRelativePath) = DOTDOT
       THEN [ok |-> FALSE, msg |-> "Invalid file path component."]
     ELSE IF includes(normalize(cleanRelativePath), DOTDOT)
       THEN [ok |-> FALSE, msg |-> "Invalid file path component ('..') detected."]
     ELSE [ok |-> TRUE, path |-> intendedPath]

\* the append branch of the update handler
appendBranch(f, validatedFilePath, content) ==
  IF errno(f, validatedFilePath) = "OK"
    THEN IF ~isFile(f, validatedFilePath)
           THEN Reply(f, 400, "Target path is not a file (cannot append)", <<>>)
         ELSE LET contentToAppend == <<"\n">> \o content
                  w == appendFile(f, validatedFilePath, contentToAppend)
              IN IF w.code = "OK" THEN Reply(w.fs, 200, "Content appended successfully", <<>>)
                 ELSE Reply(w.fs, 500, "Failed to save note", <<>>)
  ELSE IF errno(f, validatedFilePath) = "ENOENT"
    THEN Reply(f, 404, "File not found (cannot append)", <<>>)
  ELSE Reply(f, 404, "File not found or inaccessible for append", <<>>)

\* an overwrite branch that answers without writing
overwriteSkipped(f, validatedFilePath, content) ==
  Reply(f, 200, "Note saved successfully (overwritten)", <<>>)

\* the overwrite branch of the update handler
overwriteBranch(f, validatedFilePath, content) ==
  LET w == writeFile(f, validatedFilePath, content)
  IN IF w.code = "OK" THEN Reply(w.fs, 200, "Note saved successfully (overwritten)", <<>>)
     ELSE Reply(w.fs, 500, "Failed to save note", <<>>)

\* POST /api/notes/update {filename, content, action}
UpdatePOST(f, filename, content, act) ==
  LET action == IF act = "append" THEN "append" ELSE "overwrite"
      v == validateNotePath(filename)
      dirOfFile == dirname(v.path)
  IN IF trim(filename) = <<>>
       THEN Reply(f, 400, "Filename must be a non-empty string", <<>>)
     ELSE IF ~v.ok THEN Reply(f, 400, v.msg, <<>>)
     ELSE IF errno(f, dirOfFile) # "OK"
       THEN IF errno(f, dirOfFile) = "ENOENT" /\ action = "overwrite" /\ dirOfFile # notesDir
              THEN Reply(f, 404, "Parent directory not found", <<>>)
            ELSE IF errno(f, dirOfFile) = "ENOENT" /\ action = "append"
              THEN Reply(f, 404, "Parent directory not found for append", <<>>)
            ELSE Reply(f, 500, "Cannot access file path", <<>>)
     ELSE IF action = "append" THEN appendBranch(f, v.path, content)
     ELSE overwriteBranch(f, v.path, content)

\* sanitizeFilename without the removal of characters
sanitizeKeepingAll(filename) ==
  LET s2 == trim(dropTrailing(dropLeading(trim(filename), {"."}), {"."}))
      s3 == IF endsWith(s2, MD) THEN s2 ELSE s2 \o MD
  IN IF s3 = <<>> \/ s3 = MD
       THEN [ok |-> FALSE, msg |-> "Invalid or empty filename after sanitization"]
     ELSE [ok |-> TRUE, name |-> s3]

\* sanitizeFilename: [ok, name] or [ok, msg]
sanitizeFilename(filename) ==
  LET s1 == stripChars(filename, {"/", "\\", ":", "*", "?", "\"", "<", ">", "|"})
      s2 == trim(dropTrailing(dropLeading(trim(s1), {"."}), {"."}))
      s3 == IF endsWith(s2, MD) THEN s2 ELSE s2 \o MD
  IN IF s3 = <<>> \/ s3 = MD
       THEN [ok |-> FALSE, msg |-> "Invalid or empty filename after sanitization"]
     ELSE [ok |-> TRUE, name |-> s3]

\* POST /api/notes/create {filename}
CreatePOST(f, filename) ==
  LET m == mkdirRecursive(f, notesDir)
      s == sanitizeFilename(filename)
      filePath == join(notesDir, s.name)
      w == writeFileExcl(m.fs, filePath, <<>>)
  IN IF m.code # "OK" THEN Reply(m.fs, 500, "Failed to create note", <<>>)
     ELSE IF trim(filename) = <<>>
       THEN Reply(m.fs, 400, "Filename must be a non-empty string", <<>>)
     ELSE IF ~s.ok THEN Reply(m.fs, 400, s.msg, <<>>)
     ELSE IF w.code = "OK" THEN Reply(w.fs, 201, "Note created successfully", s.name)
     ELSE IF w.code = "EEXIST" THEN Reply(w.fs, 409, "File already exists", <<>>)
     ELSE IF w.code = "ENOENT" THEN Reply(w.fs, 500, "Parent directory issue", <<>>)
     ELSE Reply(w.fs, 500, "Failed to create note", <<>>)

\* GET /api/notes/content?path=
ContentGET(f, filePath) ==
  LET fullPath == join(join(Cwd, <<"n", "o", "t", "e", "s">>), filePath)
  IN IF filePath = <<>> THEN Reply(f, 400, "File path is required", <<>>)
     ELSE IF ~startsWith(fullPath, notesDir) \/ ~endsWith(filePath, MD)
       THEN Reply(f, 400, "Invalid file path", <<>>)
     ELSE IF ~isFile(f, fullPath) THEN Reply(f, 500, "Failed to read note content", <<>>)
     ELSE Reply(f, 200, "", f[fullPath].content)

\* RenamePOST without the test of the destination
RenameOntoOccupied(f, oldPath, newPath) ==
  LET oldFullPath == join(notesDir, oldPath)
      newFullPath == join(notesDir, newPath)
      r == renameSync(f, oldFullPath, newFullPath)
  IN IF oldPath = <<>> \/ newPath = <<>>
       THEN Reply(f, 400, "Old path and new path are required", <<>>)
     ELSE IF ~existsSync(f, oldFullPath) THEN Reply(f, 404, "File not found", <<>>)
     ELSE IF r.code = "OK" THEN Reply(r.fs, 200, "Note renamed successfully", <<>>)
     ELSE Reply(r.fs, 500, "Failed to rename note", <<>>)

\* POST /api/notes/rename {oldPath, newPath}
RenamePOST(f, oldPath, newPath) ==
  LET oldFullPath == join(notesDir, oldPath)
      newFullPath == join(notesDir, newPath)
      r == renameSync(f, oldFullPath, newFullPath)
  IN IF oldPath = <<>> \/ newPath = <<>>
       THEN Reply(f, 400, "Old path and new path are required", <<>>)
     ELSE IF ~existsSync(f, oldFullPath) THEN Reply(f, 404, "File not found", <<>>)
     ELSE IF existsSync(f, newFullPath) THEN Reply(f, 409, "File already exists", <<>>)
     ELSE IF r.code = "OK" THEN Reply(r.fs, 200, "Note renamed successfully", <<>>)
     ELSE Reply(r.fs, 500, "Failed to rename note", <<>>)

\* deleteFolderRecursive without the recursive call: the folder's files and the
\* folder go, its subdirectories are skipped
deleteFolderSkippingSubfolders(f, folderPath) ==
  Res(remove(f, {q \in readdirSync(f, folderPath) : f[q].type = "file"}
                 \cup {noTrail(folderPath)}), "OK")

\* deleteFolderRecursive; deleteEntries is its forEach over the directory's entries
RECURSIVE deleteFolderRecursive(_, _)
RECURSIVE deleteEntries(_, _)
deleteEntries(f, entries) ==
  IF entries = {} THEN Res(f, "OK")
  ELSE LET curPath == CHOOSE q \in entries : TRUE
           r == IF f[curPath].type = "dir" THEN deleteFolderRecursive(f, curPath)
                ELSE unlinkSync(f, curPath)
       IN IF r.code # "OK" THEN r ELSE deleteEntries(r.fs, entries \ {curPath})

deleteFolderRecursive(f, folderPath) ==
  IF ~existsSync(f, folderPath) THEN Res(f, "OK")
  ELSE LET r == deleteEntries(f, readdirSync(f, folderPath))
       IN IF r.code # "OK" THEN r ELSE rmdirSync(r.fs, folderPath)

\* a delete that, for a note, removes the folder that holds it
DeleteTakingFolder(f, notePath) ==
  LET fullPath == join(notesDir, notePath)
      d == deleteFolderRecursive(f, IF isDirectory(f, fullPath) THEN fullPath
                                    ELSE dirname(noTrail(fullPath)))
  IN IF notePath = <<>> THEN Reply(f, 400, "Path is required", <<>>)
     ELSE IF ~existsSync(f, fullPath) THEN Reply(f, 404, "Path not found", <<>>)
     ELSE IF d.code = "OK" THEN Reply(d.fs, 200, "Folder deleted successfully", <<>>)
     ELSE Reply(d.fs, 500, "Failed to delete. ", <<>>)

\* POST /api/notes/delete {path}
DeletePOST(f, notePath) ==
  LET fullPath == join(notesDir, notePath)
      protectedPaths == {notesDir}
      d == deleteFolderRecursive(f, fullPath)
      u == unlinkSync(f, fullPath)
  IN IF notePath = <<>> THEN Reply(f, 400, "Path is required", <<>>)
     ELSE IF ~existsSync(f, fullPath) THEN Reply(f, 404, "Path not found", <<>>)
     ELSE IF fullPath \in protectedPaths
       THEN Reply(f, 403, "Cannot delete protected system folder", <<>>)
     ELSE IF isDirectory(f, fullPath)
       THEN IF d.code = "OK" THEN Reply(d.fs, 200, "Folder deleted successfully", <<>>)
            ELSE Reply(d.fs, 500, "Failed to delete. ", <<>>)
     ELSE IF u.code = "OK" THEN Reply(u.fs, 200, "Note deleted successfully", <<>>)
     ELSE Reply(u.fs, 500, "Failed to delete. ", <<>>)

-----------------------------------------------------------------------------
(* The tree listing *)

\* the collation order of the characters that occur in names
Collation == <<" ", ".", "2", "a", "b", "c", "d", "e", "f", "h", "l", "m", "n", "o",
               "r", "s", "t", "w", "x", "y", "z">>

rank(c) == IF \E i \in 1..Len(Collation) : Collation[i] = c
             THEN CHOOSE i \in 1..Len(Collation) : Collation[i] = c
           ELSE 0

\* String.prototype.localeCompare: -1, 0 or 1
RECURSIVE localeCompare(_, _)
localeCompare(a, b) ==
  IF a = <<>> /\ b = <<>> THEN 0
  ELSE IF a = <<>> THEN -1
  ELSE IF b = <<>> THEN 1
  ELSE IF rank(Head(a)) < rank(Head(b)) THEN -1
  ELSE IF rank(Head(a)) > rank(Head(b)) THEN 1
  ELSE localeCompare(Tail(a), Tail(b))

\* the comparator of buildFileTree's sort: directories first, then by name
compareNodes(a, b) ==
  IF a.type # b.type THEN (IF a.type = "directory" THEN -1 ELSE 1)
  ELSE localeCompare(a.name, b.name)

\* Array.prototype.sort with compareNodes, on the set of nodes of one directory
RECURSIVE sortNodes(_)
sortNodes(nodes) ==
  IF nodes = {} THEN <<>>
  ELSE LET first == CHOOSE n \in nodes : \A m \in nodes : compareNodes(n, m) <= 0
       IN <<first>> \o sortNodes(nodes \ {first})

\* buildFileTree: the nodes of directory dirPath, whose path relative to the
\* notes root is relativePath; a file node has no children
RECURSIVE buildFileTree(_, _, _)
buildFileTree(f, dirPath, relativePath) ==
  LET listed == {q \in readdirSync(f, dirPath) :
                   f[q].type = "dir" \/ endsWith(basename(q), MD)}
      node(q) == LET relativeNodePath == join(relativePath, basename(q))
                 IN IF f[q].type = "dir"
                      THEN [name |-> basename(q), path |-> relativeNodePath,
                            type |-> "directory",
                            children |-> buildFileTree(f, q, relativeNodePath)]
                    ELSE [name |-> basename(q), path |-> relativeNodePath,
                          type |-> "file", children |-> <<>>]
  IN sortNodes({node(q) : q \in listed})

\* GET /api/notes
TreeGET(f) ==
  IF ~isDirectory(f, notesDir) THEN Reply(f, 500, "Failed to read notes directory", <<>>)
  ELSE Reply(f, 200, "", buildFileTree(f, notesDir, <<>>))

\* every node of a listing, at any depth
RECURSIVE nodesOf(_)
nodesOf(tree) ==
  IF tree = <<>> THEN {}
  ELSE {[name |-> Head(tree).name, path |-> Head(tree).path, type |-> Head(tree).type]}
         \cup nodesOf(Head(tree).children) \cup nodesOf(Tail(tree))

\* POST /api/notes/move {sourcePath, targetFolder}: the file keeps its base name
MovePOST(f, sourcePath, targetFolder) ==
  LET src == validateNotePath(sourcePath)
      dst == validateNotePath(targetFolder)
      newFullPath == join(dst.path, basename(src.path))
      r == renameSync(f, src.path, newFullPath)
  IN IF sourcePath = <<>> \/ targetFolder = <<>>
       THEN Reply(f, 400, "Source path and target folder are required", <<>>)
     ELSE IF ~src.ok \/ ~dst.ok THEN Reply(f, 400, "Invalid path", <<>>)
     ELSE IF ~existsSync(f, src.path) THEN Reply(f, 404, "Source file not found", <<>>)
     ELSE IF ~isFile(f, src.path) THEN Reply(f, 400, "Source is not a file", <<>>)
     ELSE IF ~existsSync(f, dst.path) THEN Reply(f, 404, "Target folder not found", <<>>)
     ELSE IF ~isDirectory(f, dst.path) THEN Reply(f, 400, "Target is not a folder", <<>>)
     ELSE IF dirname(src.path) = dst.path
       THEN Reply(f, 400, "File is already in the target folder", <<>>)
     ELSE the({IF m.code # "OK" THEN Reply(m.fs, 500, "Failed to move note", <<>>)
               ELSE Reply(m.fs, 200, "Note moved successfully",
                          buildFileTree(m.fs, notesDir, <<>>)) : m \in {r}})

-----------------------------------------------------------------------------
(* The state *)

\* no selection (null); an empty path is falsy like null in every test made of it
NULL == <<>>

hello == <<"h", "e", "l", "l", "o">>
world == <<"w", "o", "r", "l", "d">>

\* the disk at start: three notes in the notes root and below it, and beside
\* the root a file and a directory whose name starts with the root's name
Disk0 ==
  LET paths == {ROOT, Cwd, notesDir,
                <<"/", "w", "/", "n", "o", "t", "e", "s", "/", "a", ".", "m", "d">>, <<"/", "w", "/", "n", "o", "t", "e", "s", "/", "d">>, <<"/", "w", "/", "n", "o", "t", "e", "s", "/", "d", "/", "c", ".", "m", "d">>,
                <<"/", "w", "/", "n", "o", "t", "e", "s", "/", "d", "/", "e">>, <<"/", "w", "/", "n", "o", "t", "e", "s", "/", "d", "/", "e", "/", "f", ".", "m", "d">>,
                <<"/", "w", "/", "s", ".", "m", "d">>, <<"/", "w", "/", "n", "o", "t", "e", "s", "2">>, <<"/", "w", "/", "n", "o", "t", "e", "s", "2", "/", "x", ".", "m", "d">>}
  IN [q \in paths |-> IF q = <<"/", "w", "/", "n", "o", "t", "e", "s", "/", "d", "/", "c", ".", "m", "d">> THEN File(world)
                      ELSE IF endsWith(q, MD) THEN File(hello)
                      ELSE Dir]

\* the longest content a note is let to grow to
MaxContentLen == 11

Contents == {hello, world}

UpdateNames == {<<"d", "r", "a", "f", "t", ".", "m", "d">>, <<"d", "/", ".", ".", "/", "d", "r", "a", "f", "t", ".", "m", "d">>, <<".", ".", "/", "s", ".", "m", "d">>, <<"/", "w", "/", "n", "o", "t", "e", "s", "2", "/", "x", ".", "m", "d">>, <<"d">>,
                <<"n", "x", "/", "z", ".", "m", "d">>, <<"a", ".", "m", "d", "/", "y", "/", "z", ".", "m", "d">>, <<"x", ".", ".", "y", ".", "m", "d">>, <<" ">>}

CreateNames == {<<"d", "r", "a", "f", "t">>, <<"x", ".", ".", "y">>, <<".", ".">>, <<" ">>}

ContentPaths == {<<"d", "r", "a", "f", "t", ".", "m", "d">>, <<"a", ".", "m", "d">>, <<"x", ".", ".", "y", ".", "m", "d">>, <<"z", "z", ".", "m", "d">>, <<"d">>,
                 <<".", ".", "/", "s", ".", "m", "d">>, <<".", ".", "/", "n", "o", "t", "e", "s", "2", "/", "x", ".", "m", "d">>}

RenamePairs == {<<<<"a", ".", "m", "d">>, <<"d", "/", "c", ".", "m", "d">>>>, <<<<"d", "r", "a", "f", "t", ".", "m", "d">>, <<"d", "/", "c", ".", "m", "d">>>>,
                <<<<"a", ".", "m", "d">>, <<"a", ".", "m", "d">>>>, <<<<"d", "r", "a", "f", "t", ".", "m", "d">>, <<"d", "r", "a", "f", "t", ".", "m", "d">>>>,
                <<<<"a", ".", "m", "d">>, <<"b", ".", "m", "d">>>>, <<<<"z", "z", ".", "m", "d">>, <<"b", ".", "m", "d">>>>,
                <<<<".", ".", "/", "s", ".", "m", "d">>, <<".", ".", "/", "t", ".", "m", "d">>>>}

DeletePaths == {<<"d", "r", "a", "f", "t", ".", "m", "d">>, <<"d">>, <<"d", "/", "e">>, <<"z", "z", ".", "m", "d">>, <<".">>, <<".", "/">>, <<"x", "/", ".", ".">>,
                <<".", ".", "/", "s", ".", "m", "d">>}

Request(op, a1, a2, a3) == [op |-> op, a1 |-> a1, a2 |-> a2, a3 |-> a3]

NoRequest == [op |-> "none", a1 |-> <<>>, a2 |-> <<>>, a3 |-> "",
              status |-> 0, msg |-> "", out |-> <<>>]

\* the request just answered, with its response
Answered(req, r) == [op |-> req.op, a1 |-> req.a1, a2 |-> req.a2, a3 |-> req.a3,
                     status |-> r.status, msg |-> r.msg, out |-> r.out]

Snapshot == [fs |-> fs, fileTree |-> fileTree, selectedNote |-> selectedNote,
             editorContent |-> editorContent, hasChanges |-> hasChanges]

\* no file that requests write to has grown beyond the bound
withinBounds(f) ==
  \A q \in DOMAIN f \ {metadataPath} : Len(f[q].content) <= MaxContentLen

\* the chat pane's modalState and isSavingToNote as its useState calls set them
\* up; closeModal puts them back
ChatClosed ==
  [isOpen |-> FALSE, step |-> "initial", messageToSave |-> <<>>, error |-> "",
   fileNameToConfirm |-> <<>>, isSavingToNote |-> FALSE]

\* the two panes as their useState calls set them up
ClientInit ==
  /\ fileTree = <<>>
  /\ selectedNote = NULL
  /\ editorContent = <<>>
  /\ hasChanges = FALSE
  /\ flight = {}
  /\ chat = ChatClosed

Init ==
  /\ fs = Disk0
  /\ ClientInit
  /\ prev = Snapshot
  /\ last = NoRequest
  /\ pc = 0

\* a request handled to completion; last and prev record the exchange
Serve(req, r) ==
  /\ last = NoRequest
  /\ withinBounds(r.fs)
  /\ fs' = r.fs
  /\ prev' = Snapshot
  /\ last' = Answered(req, r)
  /\ UNCHANGED <<client, pc>>

Update ==
  \E filename \in UpdateNames, content \in Contents, action \in {"append", "overwrite"} :
    Serve(Request("update", filename, content, action),
          UpdatePOST(fs, filename, content, action))

Create ==
  \E filename \in CreateNames :
    Serve(Request("create", filename, <<>>, ""), CreatePOST(fs, filename))

Content ==
  \E filePath \in ContentPaths :
    Serve(Request("content", filePath, <<>>, ""), ContentGET(fs, filePath))

Rename ==
  \E pair \in RenamePairs :
    Serve(Request("rename", pair[1], pair[2], ""), RenamePOST(fs, pair[1], pair[2]))

Delete ==
  \E notePath \in DeletePaths :
    Serve(Request("delete", notePath, <<>>, ""), DeletePOST(fs, notePath))

Tree == Serve(Request("tree", <<>>, <<>>, ""), TreeGET(fs))

\* the exchange is over: its record is dropped before the next request
Settle ==
  /\ last # NoRequest
  /\ last' = NoRequest
  /\ prev' = Snapshot
  /\ UNCHANGED <<fs, client, pc>>

Next == Update \/ Create \/ Content \/ Rename \/ Delete \/ Tree \/ Settle

Spec == Init /\ [][Next]_vars

-----------------------------------------------------------------------------
(* Properties of single requests.  In a state where last is an answered      *)
(* request, prev.fs is the disk the request was handled on and fs the disk   *)
(* after it.                                                                 *)

\* the path has a ".." segment
hasDotDotSegment(p) == \E i \in 1..Len(split(p)) : split(p)[i] = DOTDOT

\* the absolute path is the notes root or lies below it
insideRoot(q) == q = notesDir \/ below(notesDir, q)

\* the part of a disk that lies outside the notes root
outside(f) == [q \in {x \in DOMAIN f : ~insideRoot(x)} |-> f[q]]

\* p is, as written, the relative path of a note of disk f
isNoteAt(f, p) ==
  /\ p # <<>> /\ ~isAbsolute(p)
  /\ \A i \in 1..Len(split(p)) : split(p)[i] \notin {<<>>, DOT, DOTDOT}
  /\ child(notesDir, p) \in DOMAIN f
  /\ f[child(notesDir, p)].type = "file"

\* C1: every update request whose filename has a ".." segment or resolves outside
\* the notes root is answered 400 and leaves the disk as it was.
C1_UpdateRejectsDotDotAndOutside ==
  (last.op = "update"
     /\ (hasDotDotSegment(last.a1) \/ ~insideRoot(resolve(notesDir, last.a1))))
  => (last.status = 400 /\ fs = prev.fs)

\* C2: content, rename and delete requests never read, rename, create or remove
\* anything outside the notes root: a request whose path resolves outside the
\* root is rejected and the disk outside the root stays as it was.
C2_NothingOutsideRootTouched ==
  last.op \in {"content", "rename", "delete"}
  => /\ outside(fs) = outside(prev.fs)
     /\ (~insideRoot(noTrail(join(notesDir, last.a1))) => last.status = 400)
     /\ (last.op = "rename" /\ ~insideRoot(noTrail(join(notesDir, last.a2)))
           => last.status = 400)

\* C3: a create request whose sanitized filename names an existing file of the
\* notes root is answered 409 and the disk, that file's content included, is
\* left as it was.
C3_CreateExistingFails ==
  (last.op = "create"
     /\ sanitizeFilename(last.a1).ok
     /\ isNoteAt(prev.fs, sanitizeFilename(last.a1).name))
  => (last.status = 409 /\ fs = prev.fs)

\* C3 witness: a create was refused for a note that holds content.
C3_Witness ==
  /\ last.op = "create" /\ last.status = 409
  /\ isNoteAt(prev.fs, sanitizeFilename(last.a1).name)
  /\ prev.fs[child(notesDir, sanitizeFilename(last.a1).name)].content # <<>>

\* C4: an append to an existing note with content X leaves it with content
\* X + "\n" + C; an append to a valid path at which no note exists is answered
\* 404 and creates no file.
C4_AppendContract ==
  (last.op = "update" /\ last.a3 = "append" /\ trim(last.a1) # <<>>
     /\ below(notesDir, resolve(notesDir, last.a1)))
  => LET q == resolve(notesDir, last.a1)
     IN IF q \in DOMAIN prev.fs /\ prev.fs[q].type = "file"
          THEN /\ q \in DOMAIN fs
               /\ fs[q] = File(prev.fs[q].content \o <<"\n">> \o last.a2)
        ELSE last.status = 404 /\ fs = prev.fs

\* C5: after a successful delete of a folder below the notes root, neither the
\* folder nor anything that was below it is on the disk, and the tree listing of
\* the disk has no node at or below the folder's path.
C5_DeleteFolderRemovesSubtree ==
  (last.op = "delete" /\ last.status = 200
     /\ isDirectory(prev.fs, join(notesDir, last.a1))
     /\ below(notesDir, noTrail(join(notesDir, last.a1))))
  => LET folder == noTrail(join(notesDir, last.a1))
     IN /\ \A q \in DOMAIN fs : q # folder /\ ~below(folder, q)
        /\ TreeGET(fs).status = 200
        /\ \A n \in nodesOf(TreeGET(fs).out) :
              child(notesDir, n.path) # folder /\ ~below(folder, child(notesDir, n.path))

\* C5 witness: a folder holding a file and a subfolder with a file was deleted.
C5_Witness ==
  /\ last.op = "delete" /\ last.status = 200
  /\ isDirectory(prev.fs, join(notesDir, last.a1))
  /\ LET folder == noTrail(join(notesDir, last.a1))
     IN /\ below(notesDir, folder)
        /\ \E q \in DOMAIN prev.fs : below(folder, q) /\ prev.fs[q].type = "file"
        /\ \E q, x \in DOMAIN prev.fs :
              /\ below(folder, q) /\ prev.fs[q].type = "dir"
              /\ below(q, x) /\ prev.fs[x].type = "file"

\* C6: a rename whose old and new paths both name existing notes (the same note
\* included) is answered 409 and both notes keep their contents.
C6_RenameOntoExistingFails ==
  (last.op = "rename" /\ isNoteAt(prev.fs, last.a1) /\ isNoteAt(prev.fs, last.a2))
  => /\ last.status = 409
     /\ isNoteAt(fs, last.a1) /\ isNoteAt(fs, last.a2)
     /\ fs[child(notesDir, last.a1)] = prev.fs[child(notesDir, last.a1)]
     /\ fs[child(notesDir, last.a2)] = prev.fs[child(notesDir, last.a2)]

\* C6 witness: a rename onto another existing note with other content was refused.
C6_Witness ==
  /\ last.op = "rename" /\ last.status = 409
  /\ isNoteAt(prev.fs, last.a1) /\ isNoteAt(prev.fs, last.a2)
  /\ last.a1 # last.a2
  /\ prev.fs[child(notesDir, last.a1)] # prev.fs[child(notesDir, last.a2)]

\* C7: a delete request with a non-empty path that resolves to the notes root is
\* answered 403 and leaves the disk as it was.
C7_RootNeverDeleted ==
  (last.op = "delete" /\ last.a1 # <<>>
     /\ isDirectory(prev.fs, notesDir)
     /\ noTrail(join(notesDir, last.a1)) = notesDir)
  => (last.status = 403 /\ fs = prev.fs)

\* C10: a content request for a path inside the notes root that ends in ".md"
\* and at which no file exists is answered 404.
C10_ReadMissingIsNotFound ==
  (last.op = "content" /\ endsWith(last.a1, MD)
     /\ below(notesDir, join(notesDir, last.a1))
     /\ ~isFile(prev.fs, join(notesDir, last.a1)))
  => last.status = 404

-----------------------------------------------------------------------------
(* The create-to-delete scenario: create "draft", overwrite, read, append,    *)
(* read, delete, read, from every disk of ScenarioDisks; none holds draft.md. *)

draft == <<"d", "r", "a", "f", "t">>
draftMd == <<"d", "r", "a", "f", "t", ".", "m", "d">>

ScenarioNotes == {<<"a", ".", "m", "d">>, <<"b", ".", "m", "d">>, <<"c", ".", "m", "d">>}

\* a notes root holding the notes of `notes`, a function from names to contents
diskWith(notes) ==
  [q \in {ROOT, Cwd, notesDir} \cup {child(notesDir, n) : n \in DOMAIN notes} |->
     IF q \in {ROOT, Cwd, notesDir} THEN Dir
     ELSE File(notes[CHOOSE n \in DOMAIN notes : child(notesDir, n) = q])]

\* every notes root with some of ScenarioNotes, and the disk with no notes root
ScenarioDisks ==
  {diskWith(notes) : notes \in UNION {[S -> Contents] : S \in SUBSET ScenarioNotes}}
    \cup {[q \in {ROOT, Cwd} |-> Dir]}

InitScenario ==
  /\ fs \in ScenarioDisks
  /\ ClientInit
  /\ prev = Snapshot
  /\ last = NoRequest
  /\ pc = 0

\* step n of the scenario: the request is handled on the disk the last step left
ScenarioStep(n, req, r) ==
  /\ pc = n
  /\ fs' = r.fs
  /\ prev' = Snapshot
  /\ last' = Answered(req, r)
  /\ pc' = n + 1
  /\ UNCHANGED client

ScenarioCreate ==
  ScenarioStep(0, Request("create", draft, <<>>, ""), CreatePOST(fs, draft))

ScenarioOverwrite ==
  ScenarioStep(1, Request("update", draftMd, hello, "overwrite"),
               UpdatePOST(fs, draftMd, hello, "overwrite"))

ScenarioAppend ==
  ScenarioStep(3, Request("update", draftMd, world, "append"),
               UpdatePOST(fs, draftMd, world, "append"))

ScenarioDelete ==
  ScenarioStep(5, Request("delete", draftMd, <<>>, ""), DeletePOST(fs, draftMd))

ScenarioRead ==
  \E n \in {2, 4, 6} :
    ScenarioStep(n, Request("content", draftMd, <<>>, ""), ContentGET(fs, draftMd))

NextScenario ==
  ScenarioCreate \/ ScenarioOverwrite \/ ScenarioAppend \/ ScenarioDelete \/ ScenarioRead

SpecScenario == InitScenario /\ [][NextScenario]_vars

\* C8: in the scenario the create stores an empty draft.md and returns that
\* name, the first read returns "hello", the second "hello\nworld", the delete
\* succeeds and the last read is answered 404.
C8_Scenario ==
  /\ pc = 1 => /\ last.status = 201 /\ last.out = draftMd
               /\ isNoteAt(fs, draftMd) /\ fs[child(notesDir, draftMd)].content = <<>>
  /\ pc = 3 => last.status = 200 /\ last.out = hello
  /\ pc = 5 => last.status = 200 /\ last.out = hello \o <<"\n">> \o world
  /\ pc = 6 => last.status = 200 /\ ~isNoteAt(fs, draftMd)
  /\ pc = 7 => last.status = 404

-----------------------------------------------------------------------------
(* The notes pane.  A user action is handled to completion, the request it    *)
(* sends and the state updates that follow the response included.             *)

errorLoading == <<"E", "r", "r", "o", "r", " ", "l", "o", "a", "d", "i", "n", "g", " ", "f", "i", "l", "e", " ", "c", "o", "n", "t", "e", "n", "t", ".">>

\* what the editor is given to type
EditorValues == {world}

\* the nodes of a listing at every depth, each with its children
RECURSIVE treeNodes(_)
treeNodes(tree) ==
  IF tree = <<>> THEN {}
  ELSE {Head(tree)} \cup treeNodes(Head(tree).children) \cup treeNodes(Tail(tree))

\* no drop target
NoNode == [name |-> <<>>, path |-> <<>>, type |-> "none", children |-> <<>>]

\* fetchFileContentForEditor: the editor buffer and dirty flag it leaves
fetchFileContentForEditor(f, notePath) ==
  LET r == ContentGET(f, notePath)
  IN IF r.status = 200 THEN [editorContent |-> r.out, hasChanges |-> FALSE]
     ELSE [editorContent |-> errorLoading, hasChanges |-> FALSE]

\* the effect on selectedNote: it runs when the selection has changed
selectionEffect(f, oldSelected, newSelected, content, dirty) ==
  IF newSelected = oldSelected THEN [editorContent |-> content, hasChanges |-> dirty]
  ELSE IF newSelected # NULL THEN fetchFileContentForEditor(f, newSelected)
  ELSE [editorContent |-> <<>>, hasChanges |-> FALSE]

\* a user action handled to completion; last and prev record it: a3 tells of
\* the discard prompt, status is that of the request sent (0 when none is) and
\* msg the title of the toast.  The notes pane can be reached only while the
\* dialog of the chat pane, which covers the page, is closed.
Recorded(op, a1, a2, a3, status, msg) ==
  /\ last = NoRequest
  /\ last' = [op |-> op, a1 |-> a1, a2 |-> a2, a3 |-> a3,
              status |-> status, msg |-> msg, out |-> <<>>]
  /\ prev' = Snapshot
  /\ ~chat.isOpen
  /\ pc' = pc
  /\ flight' = flight
  /\ chat' = chat

Handled(op, a1, a2, status, msg) == Recorded(op, a1, a2, "", status, msg)

\* fetchFileTree
UIFetchTree ==
  LET r == TreeGET(fs)
  IN /\ Handled("fetchFileTree", <<>>, <<>>, r.status, "")
     /\ fileTree' = IF r.status = 200 THEN r.out ELSE fileTree
     /\ UNCHANGED <<fs, selectedNote, editorContent, hasChanges>>

\* a prompt that is never shown
neverAsked(dirty, answer) == [asked |-> FALSE, go |-> TRUE]

\* hasChanges && !window.confirm(...): the prompt is shown only when the buffer
\* is dirty; go tells whether the handler goes on
confirmDiscard(dirty, answer) == [asked |-> dirty, go |-> ~dirty \/ answer]

\* what last.a3 tells of the prompt
prompt(c, answer) == IF ~c.asked THEN "" ELSE IF answer THEN "confirmed" ELSE "declined"

\* handleFileClick on a node of the tree; answer is the user's answer to the
\* discard prompt, should it be shown
UIFileClick ==
  \E node \in treeNodes(fileTree), answer \in BOOLEAN :
    \E c \in {confirmDiscard(hasChanges, answer)} :
      LET newSelected == IF c.go THEN node.path ELSE selectedNote
          e == selectionEffect(fs, selectedNote, newSelected, editorContent, hasChanges)
      IN /\ (~c.asked => answer)
         /\ Recorded("fileClick", node.path, <<>>, prompt(c, answer), 0, "")
         /\ selectedNote' = newSelected
         /\ editorContent' = e.editorContent
         /\ hasChanges' = e.hasChanges
         /\ UNCHANGED <<fs, fileTree>>

\* handleEditorChange: the textarea exists while a note is selected
UIEditorChange ==
  \E value \in EditorValues :
    /\ selectedNote # NULL
    /\ Handled("editorChange", value, <<>>, 0, "")
    /\ editorContent' = value
    /\ hasChanges' = TRUE
    /\ UNCHANGED <<fs, fileTree, selectedNote>>

\* a test that only catches a drop of an item on itself
sameItem(activeId, targetFolder) == activeId = targetFolder

\* the test of handleDragEnd for a drop into the folder the file is already in
sameFolder(activeId, targetFolder) == dirname(activeId) = targetFolder

\* handleDragEnd: active is the dragged node, over the node dropped on (NoNode
\* when dropped outside every folder); gives the disk, tree and selection it
\* leaves, the status of the move request (0 when none is sent) and the toast
handleDragEnd(f, tree, selected, active, over) ==
  LET activeId == active.path
      overId == over.path
      targetFolder == overId
      quiet == [fs |-> f, fileTree |-> tree, selectedNote |-> selected,
                status |-> 0, msg |-> ""]
  IN IF over = NoNode THEN quiet
     ELSE IF activeId = overId THEN quiet
     ELSE IF active.type # "file" THEN quiet
     ELSE IF over.type # "directory" THEN quiet
     ELSE IF sameFolder(activeId, targetFolder)
       THEN [quiet EXCEPT !.msg = "Invalid Drop"]
     ELSE the({IF r.status # 200
                 THEN [fs |-> r.fs, fileTree |-> tree, selectedNote |-> selected,
                       status |-> r.status, msg |-> "Error"]
               ELSE [fs |-> r.fs, fileTree |-> r.out,
                     selectedNote |-> IF selected = activeId
                                        THEN join(targetFolder, basename(activeId))
                                      ELSE selected,
                     status |-> r.status, msg |-> "Success"] :
               r \in {MovePOST(f, activeId, targetFolder)}})

\* a drag ends: only file nodes can be dragged and only folder nodes dropped on
UIDragEnd ==
  \E active \in {n \in treeNodes(fileTree) : n.type = "file"},
     over \in {n \in treeNodes(fileTree) : n.type = "directory"} \cup {NoNode} :
    \E d \in {handleDragEnd(fs, fileTree, selectedNote, active, over)} :
      \E e \in {selectionEffect(d.fs, selectedNote, d.selectedNote, editorContent, hasChanges)} :
        /\ Handled("dragEnd", active.path, over.path, d.status, d.msg)
        /\ fs' = d.fs
        /\ fileTree' = d.fileTree
        /\ selectedNote' = d.selectedNote
        /\ editorContent' = e.editorContent
        /\ hasChanges' = e.hasChanges

NextUI == UIFetchTree \/ UIFileClick \/ UIEditorChange \/ UIDragEnd \/ Settle

SpecUI == Init /\ [][NextUI]_vars

\* folder is, in the listing, the folder that holds the file
holdsIn(tree, folder, file) ==
  \E n \in treeNodes(tree) :
    /\ n.path = folder /\ n.type = "directory"
    /\ \E i \in 1..Len(n.children) : n.children[i].path = file /\ n.children[i].type = "file"

\* C9: a drop of a file on the folder that holds it is rejected by the notes
\* pane with the Invalid Drop notice: no move request is sent and the disk, the
\* tree and the selection stay as they were.
C9_DropIntoOwnFolderRejected ==
  (last.op = "dragEnd" /\ holdsIn(prev.fileTree, last.a2, last.a1))
  => /\ last.status = 0 /\ last.msg = "Invalid Drop"
     /\ fs = prev.fs
     /\ fileTree = prev.fileTree
     /\ selectedNote = prev.selectedNote

\* C9 witness: the selected note was dropped on the folder that holds it, after
\* an earlier move had put it there.
C9_Witness ==
  /\ last.op = "dragEnd" /\ holdsIn(prev.fileTree, last.a2, last.a1)
  /\ prev.selectedNote = last.a1
  /\ child(notesDir, last.a1) \notin DOMAIN Disk0

-----------------------------------------------------------------------------
(* JSON.  JSON.parse is computed on the text; a value is a record of one shape *)
(* for every type: s holds the characters of a string or a number, items the    *)
(* elements of an array or the member values of an object, keys the member      *)
(* names of an object.                                                          *)

JValue(t, s, items, keys) == [t |-> t, s |-> s, items |-> items, keys |-> keys]
Undefined == JValue("undefined", <<>>, <<>>, <<>>)
JNull == JValue("null", <<>>, <<>>, <<>>)
JBool(b) == JValue(IF b THEN "true" ELSE "false", <<>>, <<>>, <<>>)
JNumber(s) == JValue("number", s, <<>>, <<>>)
JString(s) == JValue("string", s, <<>>, <<>>)
JArray(items) == JValue("array", <<>>, items, <<>>)
JObject(keys, items) == JValue("object", <<>>, items, keys)

\* a parse step: the value read and the position after it, or the SyntaxError
Parsed(v, i) == [ok |-> TRUE, v |-> v, i |-> i]
SyntaxError == [ok |-> FALSE, v |-> Undefined, i |-> 0]

\* the character at position i, "" past the end
at(s, i) == IF i <= Len(s) THEN s[i] ELSE ""

Digits == {"0", "1", "2", "3", "4", "5", "6", "7", "8", "9"}

RECURSIVE skipWs(_, _)
skipWs(s, i) == IF at(s, i) \in {" ", "\t", "\n", "\r"} THEN skipWs(s, i + 1) ELSE i

\* the rest of a string literal, from position i after its opening quote
RECURSIVE scanString(_, _, _)
scanString(s, i, acc) ==
  IF i > Len(s) THEN SyntaxError
  ELSE IF s[i] = "\"" THEN Parsed(JString(acc), i + 1)
  ELSE IF s[i] = "\\"
    THEN IF at(s, i + 1) \in {"\"", "\\", "/"}
           THEN scanString(s, i + 2, Append(acc, s[i + 1]))
         ELSE IF at(s, i + 1) = "n" THEN scanString(s, i + 2, Append(acc, "\n"))
         ELSE SyntaxError
  ELSE IF s[i] = "\n" THEN SyntaxError
  ELSE scanString(s, i + 1, Append(acc, s[i]))

RECURSIVE scanDigits(_, _)
scanDigits(s, i) == IF at(s, i) \in Digits THEN scanDigits(s, i + 1) ELSE i

\* an integer literal at position i
scanNumber(s, i) ==
  LET first == IF at(s, i) = "-" THEN i + 1 ELSE i
      end == IF at(s, first) = "0" THEN first + 1 ELSE scanDigits(s, first)
  IN IF end = first THEN SyntaxError ELSE Parsed(JNumber(SubSeq(s, i, end - 1)), end)

scanLiteral(s, i, text, v) ==
  IF i + Len(text) - 1 <= Len(s) /\ SubSeq(s, i, i + Len(text) - 1) = text
    THEN Parsed(v, i + Len(text))
  ELSE SyntaxError

RECURSIVE parseValue(_, _)
RECURSIVE parseElements(_, _, _)
RECURSIVE parseMembers(_, _, _, _)

\* the elements of an array from position i, after "[" or ","
parseElements(s, i, acc) ==
  LET r == parseValue(s, i)
      j == skipWs(s, r.i)
  IN IF ~r.ok THEN SyntaxError
     ELSE IF at(s, j) = "," THEN parseElements(s, j + 1, Append(acc, r.v))
     ELSE IF at(s, j) = "]" THEN Parsed(JArray(Append(acc, r.v)), j + 1)
     ELSE SyntaxError

\* the members of an object from position i, after "{" or ","
parseMembers(s, i, keys, items) ==
  LET j == skipWs(s, i)
      k == scanString(s, j + 1, <<>>)
      c == skipWs(s, k.i)
      r == parseValue(s, c + 1)
      e == skipWs(s, r.i)
  IN IF at(s, j) # "\"" \/ ~k.ok \/ at(s, c) # ":" \/ ~r.ok THEN SyntaxError
     ELSE IF at(s, e) = ","
       THEN parseMembers(s, e + 1, Append(keys, k.v.s), Append(items, r.v))
     ELSE IF at(s, e) = "}"
       THEN Parsed(JObject(Append(keys, k.v.s), Append(items, r.v)), e + 1)
     ELSE SyntaxError

parseValue(s, i) ==
  LET j == skipWs(s, i)
      c == at(s, j)
  IN IF c = "{"
       THEN IF at(s, skipWs(s, j + 1)) = "}"
              THEN Parsed(JObject(<<>>, <<>>), skipWs(s, j + 1) + 1)
            ELSE parseMembers(s, j + 1, <<>>, <<>>)
     ELSE IF c = "["
       THEN IF at(s, skipWs(s, j + 1)) = "]"
              THEN Parsed(JArray(<<>>), skipWs(s, j + 1) + 1)
            ELSE parseElements(s, j + 1, <<>>)
     ELSE IF c = "\"" THEN scanString(s, j + 1, <<>>)
     ELSE IF c \in Digits \cup {"-"} THEN scanNumber(s, j)
     ELSE IF c = "t" THEN scanLiteral(s, j, <<"t", "r", "u", "e">>, JBool(TRUE))
     ELSE IF c = "f" THEN scanLiteral(s, j, <<"f", "a", "l", "s", "e">>, JBool(FALSE))
     ELSE IF c = "n" THEN scanLiteral(s, j, <<"n", "u", "l", "l">>, JNull)
     ELSE SyntaxError

\* JSON.parse: [ok, v]; not ok is the SyntaxError it throws
JSONparse(text) ==
  LET r == parseValue(text, 1)
  IN IF r.ok /\ skipWs(text, r.i) = Len(text) + 1 THEN [ok |-> TRUE, v |-> r.v]
     ELSE [ok |-> FALSE, v |-> Undefined]

\* v[key] for a value that is neither null nor undefined: the last member of
\* that name of an object, undefined for any other value
member(v, key) ==
  LET hits == {i \in 1..Len(v.keys) : v.keys[i] = key}
  IN IF v.t = "object" /\ hits # {}
       THEN v.items[CHOOSE i \in hits : \A k \in hits : k <= i]
     ELSE Undefined

\* a property read of v throws a TypeError
nullish(v) == v.t \in {"null", "undefined"}

\* the value counts as true in a condition
truthy(v) ==
  ~ \/ v.t \in {"null", "undefined", "false"}
    \/ v.t = "string" /\ v.s = <<>>
    \/ v.t = "number" /\ v.s \in {<<"0">>, <<"-", "0">>}

-----------------------------------------------------------------------------
(* The tree listing with the ordering sidecar (readDir).  The order in which   *)
(* fs.readdir returns the entries of a directory is the file system's choice:  *)
(* `reads` lists the entries of every directory in the order they are read.    *)

\* Number.MAX_SAFE_INTEGER (2^53 - 1), held as the largest integer of the model:
\* all that is used of it is that it is above every index
MAX_SAFE_INTEGER == 2147483647

\* fs.readdir(dirPath, {withFileTypes: true}): the entries in the order read
readdir(f, reads, dirPath) ==
  SelectSeq(reads, LAMBDA q : q \in readdirSync(f, dirPath))

\* the order array readDir gets from the sidecar; every failure inside the try
\* (no file, SyntaxError, null.order) leaves []
sidecarOrder(f) ==
  LET p == JSONparse(f[metadataPath].content)
      order == member(p.v, <<"o", "r", "d", "e", "r">>)
  IN IF ~isFile(f, metadataPath) THEN JArray(<<>>)
     ELSE IF ~p.ok \/ nullish(p.v) THEN JArray(<<>>)
     ELSE IF truthy(order) THEN order
     ELSE JArray(<<>>)

\* orderMap.get(nodePath) ?? Number.MAX_SAFE_INTEGER, orderMap built from the
\* array order: a later entry of the same path replaces an earlier one
orderOf(order, nodePath) ==
  LET listed == {i \in 1..Len(order.items) : order.items[i] = JString(nodePath)}
  IN IF listed = {} THEN MAX_SAFE_INTEGER
     ELSE (CHOOSE i \in listed : \A k \in listed : k <= i) - 1

\* a comparator that sorts by decreasing index
compareReversed(order, a, b) == orderOf(order, b.path) - orderOf(order, a.path)

\* the comparator of readDir's sort
compareOrder(order, a, b) == orderOf(order, a.path) - orderOf(order, b.path)

\* one step of the stable sort: n goes behind every node that does not sort after it
RECURSIVE insertByOrder(_, _, _)
insertByOrder(order, sorted, n) ==
  IF sorted = <<>> THEN <<n>>
  ELSE IF compareOrder(order, sorted[Len(sorted)], n) <= 0 THEN Append(sorted, n)
  ELSE Append(insertByOrder(order, SubSeq(sorted, 1, Len(sorted) - 1), n),
              sorted[Len(sorted)])

\* Array.prototype.sort with compareOrder (stable)
RECURSIVE sortByOrder(_, _)
sortByOrder(order, nodes) ==
  IF nodes = <<>> THEN <<>>
  ELSE insertByOrder(order, sortByOrder(order, SubSeq(nodes, 1, Len(nodes) - 1)),
                     nodes[Len(nodes)])

\* readDir, for a sidecar whose order is an array: the nodes of dirPath
RECURSIVE readDir(_, _, _, _, _)
RECURSIVE readEntries(_, _, _, _, _)
readEntries(f, reads, order, entries, basePath) ==
  IF entries = <<>> THEN <<>>
  ELSE LET fullPath == Head(entries)
           name == basename(fullPath)
           nodePath == join(basePath, name)
           children == readDir(f, reads, order, fullPath, nodePath)
           rest == readEntries(f, reads, order, Tail(entries), basePath)
       IN IF f[fullPath].type = "dir"
            THEN IF Len(children) > 0
                   THEN <<[name |-> name, path |-> nodePath, type |-> "directory",
                           children |-> children]>> \o rest
                 ELSE rest
          ELSE IF endsWith(name, MD)
            THEN <<[name |-> name, path |-> nodePath, type |-> "file",
                    children |-> <<>>]>> \o rest
          ELSE rest

readDir(f, reads, order, dirPath, basePath) ==
  sortByOrder(order, readEntries(f, reads, order, readdir(f, reads, dirPath), basePath))

\* GET /api/notes of the sidecar version; order.map throws unless order is an array
ReadDirGET(f, reads) ==
  IF ~isDirectory(f, notesDir) THEN Reply(f, 500, "Failed to read notes directory", <<>>)
  ELSE IF sidecarOrder(f).t # "array"
    THEN Reply(f, 500, "Failed to read notes directory", <<>>)
  ELSE Reply(f, 200, "", readDir(f, reads, sidecarOrder(f), notesDir, <<>>))

-----------------------------------------------------------------------------
(* Tree listings of given notes directories: both versions of GET /api/notes  *)
(* are run on every disk of TreeDisks, readDir under every order of reading.   *)

\* a notes root with directories dirs and files of content hello at files
treeDisk(dirs, files) ==
  LET ds == {ROOT, Cwd, notesDir} \cup {child(notesDir, d) : d \in dirs}
      fl == {child(notesDir, n) : n \in files}
  IN [q \in ds \cup fl |-> IF q \in ds THEN Dir ELSE File(hello)]

\* notes at the root beside a folder; an empty folder; a folder holding notes,
\* a file that is no note and an empty folder; a root without folders; an empty
\* root; a folder holding only an empty folder
TreeShapes ==
  {treeDisk({<<"d">>}, {<<"b", ".", "m", "d">>, <<"a", ".", "m", "d">>, <<"d", "/", "c", ".", "m", "d">>}),
   treeDisk({<<"d">>}, {<<"b", ".", "m", "d">>}),
   treeDisk({<<"d">>, <<"d", "/", "e">>}, {<<"a", ".", "m", "d">>, <<"d", "/", "g", ".", "m", "d">>, <<"d", "/", "c", ".", "m", "d">>, <<"d", "/", "t", ".", "t", "x", "t">>}),
   treeDisk({}, {<<"b", ".", "m", "d">>, <<"a", ".", "m", "d">>, <<"t", ".", "t", "x", "t">>}),
   treeDisk({}, {}),
   treeDisk({<<"d">>, <<"d", "/", "e">>}, {})}

\* what the sidecar file may hold
SidecarTexts ==
  {<<"{", "\"", "o", "r", "d", "e", "r", "\"", ":", "[", "\"", "b", ".", "m", "d", "\"", ",", "\"", "d", "\"", ",", "\"", "a", ".", "m", "d", "\"", "]", "}">>,
   <<"{", "\"", "o", "r", "d", "e", "r", "\"", ":", "[", "\"", "d", "/", "g", ".", "m", "d", "\"", ",", "\"", "a", ".", "m", "d", "\"", "]", "}">>,
   <<"{", "\"", "o", "r", "d", "e", "r", "\"", ":", "[", "\"", "a", ".", "m", "d", "\"", ",", "\"", "b", ".", "m", "d", "\"", ",", "\"", "a", ".", "m", "d", "\"", "]", "}">>,
   <<"{">>,
   <<"{", "\"", "x", "\"", ":", "1", "}">>,
   <<"{", "\"", "o", "r", "d", "e", "r", "\"", ":", "\"", "b", ".", "m", "d", "\"", "}">>,
   <<"{", "\"", "o", "r", "d", "e", "r", "\"", ":", "[", "1", "]", "}">>,
   <<"n", "u", "l", "l">>,
   <<"{", "\"", "o", "r", "d", "e", "r", "\"", ":", "{", "}", "}">>}

TreeDisks ==
  TreeShapes \cup {put(f, metadataPath, File(text)) : f \in TreeShapes, text \in SidecarTexts}

\* the sequences that hold every element of S once
Perms(S) ==
  {s \in [1..Cardinality(S) -> S] : \A i, j \in 1..Cardinality(S) : s[i] = s[j] => i = j}

\* every way of reading the directories of dirs
RECURSIVE readsOf(_, _)
readsOf(f, dirs) ==
  IF dirs = {} THEN {<<>>}
  ELSE LET d == CHOOSE x \in dirs : TRUE
       IN {s \o r : s \in Perms(readdirSync(f, d)), r \in readsOf(f, dirs \ {d})}

ReadOrders(f) ==
  readsOf(f, {q \in DOMAIN f : f[q].type = "dir" /\ (q = notesDir \/ below(notesDir, q))})

InitTree ==
  /\ fs \in TreeDisks
  /\ ClientInit
  /\ prev = Snapshot
  /\ last = NoRequest
  /\ pc = 0

\* GET /api/notes, sidecar version
ReadDir ==
  \E reads \in ReadOrders(fs) :
    Serve(Request("readDir", reads, <<>>, ""), ReadDirGET(fs, reads))

NextTree == Tree \/ ReadDir \/ Settle

SpecTree == InitTree /\ [][NextTree]_vars

-----------------------------------------------------------------------------
(* Properties of tree listings.  In a state where last is an answered tree    *)
(* request, prev.fs is the disk listed, last.a1 the order the directories were *)
(* read in (sidecar version) and last.out the listing.                         *)

\* every child list of a listing, the top one included, with the path of the
\* node it hangs under
RECURSIVE childLists(_, _)
childLists(tree, parent) ==
  {<<parent, tree>>} \cup
    UNION {childLists(tree[i].children, tree[i].path) :
             i \in {k \in 1..Len(tree) : tree[k].type = "directory"}}

\* the number of nodes of a listing
RECURSIVE countNodes(_)
countNodes(tree) ==
  IF tree = <<>> THEN 0
  ELSE 1 + countNodes(Head(tree).children) + countNodes(Tail(tree))

hasSidecar(f) == metadataPath \in DOMAIN f

listed200 == last.op \in {"tree", "readDir"} /\ last.status = 200

\* directories before files, and each kind by name
defaultSorted(list) ==
  \A i, j \in 1..Len(list) :
    i < j => /\ list[i].type = "file" => list[j].type = "file"
             /\ list[i].type = list[j].type => localeCompare(list[i].name, list[j].name) < 0

\* C11: with no sidecar on the disk, every child list of a tree listing has its
\* directories before its files and each kind in alphabetical order of name,
\* in whatever order the directories were read.
C11_DefaultOrder ==
  (listed200 /\ ~hasSidecar(prev.fs))
  => \A l \in childLists(last.out, <<>>) : defaultSorted(l[2])

\* the sidecar of disk f parses and has an order array
orderArray(f) ==
  /\ isFile(f, metadataPath)
  /\ JSONparse(f[metadataPath].content).ok
  /\ ~nullish(JSONparse(f[metadataPath].content).v)
  /\ member(JSONparse(f[metadataPath].content).v, <<"o", "r", "d", "e", "r">>).t = "array"

\* the places at which disk f's sidecar lists the path
indices(f, nodePath) ==
  LET order == member(JSONparse(f[metadataPath].content).v, <<"o", "r", "d", "e", "r">>)
  IN {i \in 1..Len(order.items) : order.items[i] = JString(nodePath)}

highest(S) == CHOOSE i \in S : \A k \in S : k <= i

\* C12: with a parseable sidecar that has an order array, the fetch succeeds and
\* in every child list the nodes the sidecar lists stand in increasing order of
\* their sidecar index (the last one, for a path listed twice), and every node
\* it does not list stands behind all the listed ones.
C12_SidecarOrder ==
  (last.op = "readDir" /\ orderArray(prev.fs))
  => /\ last.status = 200
     /\ \A l \in childLists(last.out, <<>>) :
          \A i, j \in 1..Len(l[2]) :
            (i < j /\ indices(prev.fs, l[2][j].path) # {})
            => /\ indices(prev.fs, l[2][i].path) # {}
               /\ highest(indices(prev.fs, l[2][i].path))
                    < highest(indices(prev.fs, l[2][j].path))

\* C12 witness: a root list of two listed nodes and one unlisted, in an order
\* that is not the default one.
C12_Witness ==
  /\ last.op = "readDir" /\ orderArray(prev.fs) /\ last.status = 200
  /\ Len(last.out) = 3
  /\ indices(prev.fs, last.out[1].path) # {}
  /\ indices(prev.fs, last.out[2].path) # {}
  /\ indices(prev.fs, last.out[3].path) = {}
  /\ ~defaultSorted(last.out)

\* the sidecar of disk f is a JSON object whose order is an array of strings
wellFormedSidecar(f) ==
  /\ orderArray(f)
  /\ \A i \in 1..Len(member(JSONparse(f[metadataPath].content).v, <<"o", "r", "d", "e", "r">>).items) :
       member(JSONparse(f[metadataPath].content).v, <<"o", "r", "d", "e", "r">>).items[i].t = "string"

\* the listing of the same disk without its sidecar, read in the same order
withoutSidecar(f, reads) ==
  ReadDirGET(remove(f, {metadataPath}), SelectSeq(reads, LAMBDA q : q # metadataPath))

\* C13: whatever the sidecar holds, the tree fetch succeeds; with the sidecar
\* absent, unparseable or of another shape than an object with an order array of
\* strings, the listing is the one of the same disk without sidecar.
C13_SidecarNeverFails ==
  last.op = "readDir"
  => /\ last.status = 200
     /\ ~wellFormedSidecar(prev.fs) => last.out = withoutSidecar(prev.fs, last.a1).out

\* the path of q relative to the notes root
relative(q) == SubSeq(q, Len(notesDir) + 2, Len(q))

\* the nodes a listing of disk f is to hold: every directory and every note
\* below the notes root
expectedNodes(f) ==
  {[name |-> basename(q), path |-> relative(q),
    type |-> IF f[q].type = "dir" THEN "directory" ELSE "file"] :
     q \in {p \in DOMAIN f : below(notesDir, p) /\ (f[p].type = "dir" \/ endsWith(p, MD))}}

\* C14: a tree listing holds exactly one node for every directory and every note
\* below the notes root, of its name, relative path and type, in the child list
\* of its parent directory's node, and no other node.
C14_ListingMirrorsDisk ==
  listed200
  => /\ nodesOf(last.out) = expectedNodes(prev.fs)
     /\ countNodes(last.out) = Cardinality(expectedNodes(prev.fs))
     /\ \A l \in childLists(last.out, <<>>) :
          \A i \in 1..Len(l[2]) : l[2][i].path = join(l[1], l[2][i].name)

-----------------------------------------------------------------------------
(* Create requests: one request of any name of CreateInputs on every disk of  *)
(* CreateDisks.                                                               *)

\* the longest name built from NameChars
MaxNameLen == 3

NameChars == {"a", "m", "d", ".", " ", "/", "\\", ":"}

RECURSIVE stringsUpTo(_)
stringsUpTo(n) ==
  IF n = 0 THEN {<<>>}
  ELSE stringsUpTo(n - 1) \cup {Append(s, c) : s \in stringsUpTo(n - 1), c \in NameChars}

CreateInputs ==
  stringsUpTo(MaxNameLen) \cup {<<"a", ".", "m", "d">>, <<".", " ", ".", "m", "d">>, <<".", " ", ".", " ", ".", "m", "d">>, <<"a", "*", "?", "\"", "<", ">", "|">>, <<".", ".", "m", "d", ".", ".">>}

\* no notes root; an empty one; one holding a.md; one holding a folder m.md;
\* a regular file where the notes root should be
CreateDisks ==
  {[q \in {ROOT, Cwd} |-> Dir],
   treeDisk({}, {}),
   treeDisk({}, {<<"a", ".", "m", "d">>}),
   treeDisk({<<"m", ".", "m", "d">>}, {<<"a", ".", "m", "d">>}),
   [q \in {ROOT, Cwd, notesDir} |-> IF q = notesDir THEN File(hello) ELSE Dir]}

InitCreate ==
  /\ fs \in CreateDisks
  /\ ClientInit
  /\ prev = Snapshot
  /\ last = NoRequest
  /\ pc = 0

\* the one create request
CreateOnce ==
  \E filename \in CreateInputs :
    /\ pc = 0
    /\ pc' = 1
    /\ LET r == CreatePOST(fs, filename)
       IN /\ fs' = r.fs
          /\ last' = Answered(Request("create", filename, <<>>, ""), r)
    /\ prev' = Snapshot
    /\ UNCHANGED client

NextCreate == CreateOnce

SpecCreate == InitCreate /\ [][NextCreate]_vars

\* the entries the request made, and whether it left the old ones as they were
made == DOMAIN fs \ DOMAIN prev.fs
keptAll == \A q \in DOMAIN prev.fs : q \in DOMAIN fs /\ fs[q] = prev.fs[q]

\* a name the create endpoint may give a note
cleanName(name) ==
  /\ \A i \in 1..Len(name) : name[i] \notin {"/", "\\", ":", "*", "?", "\"", "<", ">", "|"}
  /\ endsWith(name, MD)
  /\ name # MD

\* the request made exactly the empty note last.out in the notes root, beside
\* the entries of `also`
madeNote(also) ==
  /\ cleanName(last.out)
  /\ made \ also = {child(notesDir, last.out)}
  /\ fs[child(notesDir, last.out)] = File(<<>>)
  /\ keptAll

-----------------------------------------------------------------------------
(* The POST endpoints from the request body on: request.json() and the tests  *)
(* made of the fields, before the handling of the strings they hold.          *)

\* the string a value holds, for a value that is a string
str(v) == v.s

\* POST /api/notes/create: mkdir, request.json(), typeof body.filename
CreateJSON(f, raw) ==
  LET m == mkdirRecursive(f, notesDir)
      p == JSONparse(raw)
      filename == member(p.v, <<"f", "i", "l", "e", "n", "a", "m", "e">>)
  IN IF m.code # "OK" THEN Reply(m.fs, 500, "Failed to create note", <<>>)
     ELSE IF ~p.ok THEN Reply(m.fs, 400, "Invalid JSON body", <<>>)
     ELSE IF nullish(p.v) THEN Reply(m.fs, 500, "Failed to create note", <<>>)
     ELSE IF filename.t # "string"
       THEN Reply(m.fs, 400, "Filename must be a non-empty string", <<>>)
     ELSE the({CreatePOST(f, name) : name \in {str(filename)}})

\* POST /api/notes/update: request.json(), typeof body.filename, typeof
\* body.content, body.action
UpdateJSON(f, raw) ==
  LET p == JSONparse(raw)
      filename == member(p.v, <<"f", "i", "l", "e", "n", "a", "m", "e">>)
      content == member(p.v, <<"c", "o", "n", "t", "e", "n", "t">>)
      action == member(p.v, <<"a", "c", "t", "i", "o", "n">>)
  IN IF ~p.ok THEN Reply(f, 400, "Invalid JSON body", <<>>)
     ELSE IF nullish(p.v) THEN Reply(f, 500, "Failed to save note", <<>>)
     ELSE IF filename.t # "string"
       THEN Reply(f, 400, "Filename must be a non-empty string", <<>>)
     ELSE IF trim(str(filename)) = <<>>
       THEN Reply(f, 400, "Filename must be a non-empty string", <<>>)
     ELSE IF content.t # "string" THEN Reply(f, 400, "Content must be a string", <<>>)
     ELSE the({UpdatePOST(f, b.filename, b.content, b.action) :
                 b \in {[filename |-> str(filename), content |-> str(content),
                         action |-> IF action = JString(<<"a", "p", "p", "e", "n", "d">>) THEN "append"
                                    ELSE "overwrite"]}})

\* POST /api/notes/rename: request.json() and the destructuring inside the
\* only try block; path.join throws for a field that is no string
RenameJSON(f, raw) ==
  LET p == JSONparse(raw)
      oldPath == member(p.v, <<"o", "l", "d", "P", "a", "t", "h">>)
      newPath == member(p.v, <<"n", "e", "w", "P", "a", "t", "h">>)
  IN IF ~p.ok \/ nullish(p.v) THEN Reply(f, 500, "Failed to rename note", <<>>)
     ELSE IF ~truthy(oldPath) \/ ~truthy(newPath)
       THEN Reply(f, 400, "Old path and new path are required", <<>>)
     ELSE IF oldPath.t # "string" \/ newPath.t # "string"
       THEN Reply(f, 500, "Failed to rename note", <<>>)
     ELSE the({RenamePOST(f, b.oldPath, b.newPath) :
                 b \in {[oldPath |-> str(oldPath), newPath |-> str(newPath)]}})

\* POST /api/notes/delete: request.json() and the destructuring inside the
\* only try block; path.join throws for a path that is no string
DeleteJSON(f, raw) ==
  LET p == JSONparse(raw)
      notePath == member(p.v, <<"p", "a", "t", "h">>)
  IN IF ~p.ok \/ nullish(p.v) THEN Reply(f, 500, "Failed to delete. ", <<>>)
     ELSE IF ~truthy(notePath) THEN Reply(f, 400, "Path is required", <<>>)
     ELSE IF notePath.t # "string" THEN Reply(f, 500, "Failed to delete. ", <<>>)
     ELSE the({DeletePOST(f, path) : path \in {str(notePath)}})

\* bodies every endpoint is sent: no JSON, null, no field, a number, an array
AnyBodies == {<<"{">>, <<"n", "u", "l", "l">>, <<"{", "}">>, <<"5">>, <<"[", "]">>}

CreateBodies ==
  AnyBodies \cup
  {<<"{", "\"", "f", "i", "l", "e", "n", "a", "m", "e", "\"", ":", "5", "}">>, <<"{", "\"", "f", "i", "l", "e", "n", "a", "m", "e", "\"", ":", "\"", "\"", "}">>, <<"{", "\"", "f", "i", "l", "e", "n", "a", "m", "e", "\"", ":", "\"", " ", "\"", "}">>, <<"{", "\"", "f", "i", "l", "e", "n", "a", "m", "e", "\"", ":", "[", "\"", "a", "\"", "]", "}">>,
   <<"{", "\"", "f", "i", "l", "e", "n", "a", "m", "e", "\"", ":", "\"", "d", "r", "a", "f", "t", "\"", "}">>}

UpdateBodies ==
  AnyBodies \cup
  {<<"{", "\"", "f", "i", "l", "e", "n", "a", "m", "e", "\"", ":", "5", ",", "\"", "c", "o", "n", "t", "e", "n", "t", "\"", ":", "\"", "h", "e", "l", "l", "o", "\"", "}">>, <<"{", "\"", "c", "o", "n", "t", "e", "n", "t", "\"", ":", "\"", "h", "e", "l", "l", "o", "\"", "}">>,
   <<"{", "\"", "f", "i", "l", "e", "n", "a", "m", "e", "\"", ":", "\"", "\"", ",", "\"", "c", "o", "n", "t", "e", "n", "t", "\"", ":", "\"", "h", "e", "l", "l", "o", "\"", "}">>, <<"{", "\"", "f", "i", "l", "e", "n", "a", "m", "e", "\"", ":", "\"", "d", "r", "a", "f", "t", ".", "m", "d", "\"", ",", "\"", "c", "o", "n", "t", "e", "n", "t", "\"", ":", "5", "}">>,
   <<"{", "\"", "f", "i", "l", "e", "n", "a", "m", "e", "\"", ":", "\"", "d", "r", "a", "f", "t", ".", "m", "d", "\"", ",", "\"", "c", "o", "n", "t", "e", "n", "t", "\"", ":", "\"", "h", "e", "l", "l", "o", "\"", "}">>,
   <<"{", "\"", "f", "i", "l", "e", "n", "a", "m", "e", "\"", ":", "\"", "d", "r", "a", "f", "t", ".", "m", "d", "\"", ",", "\"", "c", "o", "n", "t", "e", "n", "t", "\"", ":", "\"", "w", "o", "r", "l", "d", "\"", ",", "\"", "a", "c", "t", "i", "o", "n", "\"", ":", "\"", "r", "e", "p", "l", "a", "c", "e", "\"", "}">>,
   <<"{", "\"", "f", "i", "l", "e", "n", "a", "m", "e", "\"", ":", "\"", "a", ".", "m", "d", "\"", ",", "\"", "c", "o", "n", "t", "e", "n", "t", "\"", ":", "\"", "w", "o", "r", "l", "d", "\"", ",", "\"", "a", "c", "t", "i", "o", "n", "\"", ":", "\"", "o", "v", "e", "r", "w", "r", "i", "t", "e", "\"", "}">>,
   <<"{", "\"", "f", "i", "l", "e", "n", "a", "m", "e", "\"", ":", "\"", "a", ".", "m", "d", "\"", ",", "\"", "c", "o", "n", "t", "e", "n", "t", "\"", ":", "\"", "w", "o", "r", "l", "d", "\"", ",", "\"", "a", "c", "t", "i", "o", "n", "\"", ":", "\"", "a", "p", "p", "e", "n", "d", "\"", "}">>,
   <<"{", "\"", "f", "i", "l", "e", "n", "a", "m", "e", "\"", ":", "\"", "d", "/", "c", ".", "m", "d", "\"", ",", "\"", "c", "o", "n", "t", "e", "n", "t", "\"", ":", "\"", "\"", "}">>,
   <<"{", "\"", "f", "i", "l", "e", "n", "a", "m", "e", "\"", ":", "\"", "d", "/", "e", "/", "f", ".", "m", "d", "\"", ",", "\"", "c", "o", "n", "t", "e", "n", "t", "\"", ":", "\"", "w", "o", "r", "l", "d", "\"", "}">>,
   <<"{", "\"", "f", "i", "l", "e", "n", "a", "m", "e", "\"", ":", "\"", "d", "\"", ",", "\"", "c", "o", "n", "t", "e", "n", "t", "\"", ":", "\"", "h", "e", "l", "l", "o", "\"", "}">>,
   <<"{", "\"", "f", "i", "l", "e", "n", "a", "m", "e", "\"", ":", "\"", "n", "x", "/", "z", ".", "m", "d", "\"", ",", "\"", "c", "o", "n", "t", "e", "n", "t", "\"", ":", "\"", "h", "e", "l", "l", "o", "\"", "}">>,
   <<"{", "\"", "f", "i", "l", "e", "n", "a", "m", "e", "\"", ":", "\"", "n", "x", "/", "z", ".", "m", "d", "\"", ",", "\"", "c", "o", "n", "t", "e", "n", "t", "\"", ":", "\"", "h", "e", "l", "l", "o", "\"", ",", "\"", "a", "c", "t", "i", "o", "n", "\"", ":", "\"", "a", "p", "p", "e", "n", "d", "\"", "}">>,
   <<"{", "\"", "f", "i", "l", "e", "n", "a", "m", "e", "\"", ":", "\"", "a", ".", "m", "d", "/", "z", ".", "m", "d", "\"", ",", "\"", "c", "o", "n", "t", "e", "n", "t", "\"", ":", "\"", "h", "e", "l", "l", "o", "\"", "}">>,
   <<"{", "\"", "f", "i", "l", "e", "n", "a", "m", "e", "\"", ":", "\"", "x", ".", ".", "y", ".", "m", "d", "\"", ",", "\"", "c", "o", "n", "t", "e", "n", "t", "\"", ":", "\"", "h", "e", "l", "l", "o", "\"", "}">>}

RenameBodies ==
  AnyBodies \cup
  {<<"{", "\"", "o", "l", "d", "P", "a", "t", "h", "\"", ":", "\"", "a", ".", "m", "d", "\"", "}">>, <<"{", "\"", "o", "l", "d", "P", "a", "t", "h", "\"", ":", "5", ",", "\"", "n", "e", "w", "P", "a", "t", "h", "\"", ":", "\"", "b", ".", "m", "d", "\"", "}">>,
   <<"{", "\"", "o", "l", "d", "P", "a", "t", "h", "\"", ":", "\"", "a", ".", "m", "d", "\"", ",", "\"", "n", "e", "w", "P", "a", "t", "h", "\"", ":", "5", "}">>, <<"{", "\"", "o", "l", "d", "P", "a", "t", "h", "\"", ":", "\"", "\"", ",", "\"", "n", "e", "w", "P", "a", "t", "h", "\"", ":", "\"", "b", ".", "m", "d", "\"", "}">>,
   <<"{", "\"", "o", "l", "d", "P", "a", "t", "h", "\"", ":", "0", ",", "\"", "n", "e", "w", "P", "a", "t", "h", "\"", ":", "\"", "b", ".", "m", "d", "\"", "}">>, <<"{", "\"", "o", "l", "d", "P", "a", "t", "h", "\"", ":", "\"", "a", ".", "m", "d", "\"", ",", "\"", "n", "e", "w", "P", "a", "t", "h", "\"", ":", "\"", "b", ".", "m", "d", "\"", "}">>}

DeleteBodies ==
  AnyBodies \cup
  {<<"{", "\"", "p", "a", "t", "h", "\"", ":", "5", "}">>, <<"{", "\"", "p", "a", "t", "h", "\"", ":", "\"", "\"", "}">>, <<"{", "\"", "p", "a", "t", "h", "\"", ":", "t", "r", "u", "e", "}">>, <<"{", "\"", "p", "a", "t", "h", "\"", ":", "[", "\"", "d", "\"", "]", "}">>,
   <<"{", "\"", "p", "a", "t", "h", "\"", ":", "\"", "d", "/", "e", "\"", "}">>, <<"{", "\"", "p", "a", "t", "h", "\"", ":", "\"", "d", "\"", "}">>, <<"{", "\"", "p", "a", "t", "h", "\"", ":", "\"", ".", "/", "\"", "}">>}

CreateBody ==
  \E raw \in CreateBodies :
    Serve(Request("create body", raw, <<>>, ""), CreateJSON(fs, raw))

UpdateBody ==
  \E raw \in UpdateBodies :
    Serve(Request("update body", raw, <<>>, ""), UpdateJSON(fs, raw))

RenameBody ==
  \E raw \in RenameBodies :
    Serve(Request("rename body", raw, <<>>, ""), RenameJSON(fs, raw))

DeleteBody ==
  \E raw \in DeleteBodies :
    Serve(Request("delete body", raw, <<>>, ""), DeleteJSON(fs, raw))

NextBody == CreateBody \/ UpdateBody \/ RenameBody \/ DeleteBody \/ Settle

SpecBody == Init /\ [][NextBody]_vars

-----------------------------------------------------------------------------
(* Properties of requests given by their body.  last.a1 is the body text.     *)

body == JSONparse(last.a1)

\* the field is missing, empty or no string
badField(key) ==
  \/ nullish(body.v)
  \/ member(body.v, key).t # "string"
  \/ str(member(body.v, key)) = <<>>

\* the body is no JSON, or a path or filename field of the endpoint is bad
malformed ==
  \/ ~body.ok
  \/ last.op \in {"create body", "update body"} /\ badField(<<"f", "i", "l", "e", "n", "a", "m", "e">>)
  \/ last.op = "rename body" /\ (badField(<<"o", "l", "d", "P", "a", "t", "h">>) \/ badField(<<"n", "e", "w", "P", "a", "t", "h">>))
  \/ last.op = "delete body" /\ badField(<<"p", "a", "t", "h">>)

\* an update body the handler takes as an overwrite of a path its validator
\* accepts, the action being "overwrite" or absent
overwriteOfValidPath ==
  /\ last.op = "update body" /\ body.ok /\ ~nullish(body.v)
  /\ member(body.v, <<"f", "i", "l", "e", "n", "a", "m", "e">>).t = "string"
  /\ trim(str(member(body.v, <<"f", "i", "l", "e", "n", "a", "m", "e">>))) # <<>>
  /\ member(body.v, <<"c", "o", "n", "t", "e", "n", "t">>).t = "string"
  /\ member(body.v, <<"a", "c", "t", "i", "o", "n">>) \in {Undefined, JString(<<"o", "v", "e", "r", "w", "r", "i", "t", "e">>)}
  /\ validateNotePath(str(member(body.v, <<"f", "i", "l", "e", "n", "a", "m", "e">>))).ok

target == validateNotePath(str(member(body.v, <<"f", "i", "l", "e", "n", "a", "m", "e">>))).path

\* the disk with the target holding exactly the content sent
written == put(prev.fs, target, File(str(member(body.v, <<"c", "o", "n", "t", "e", "n", "t">>))))

C17_MalformedIs400 ==
  (last.op \in {"create body", "update body", "rename body", "delete body"} /\ malformed)
  => last.status = 400 /\ fs = prev.fs

-----------------------------------------------------------------------------
(* The editor of the notes pane: saving, creating and deleting notes.  Each   *)
(* handler is run to completion, the requests it awaits included.             *)

\* the characters of a JSON string literal
RECURSIVE escaped(_)
escaped(s) ==
  IF s = <<>> THEN <<>>
  ELSE (IF Head(s) \in {"\"", "\\"} THEN <<"\\", Head(s)>>
        ELSE IF Head(s) = "\n" THEN <<"\\", "n">>
        ELSE <<Head(s)>>) \o escaped(Tail(s))

\* JSON.stringify of a string
quoted(s) == <<"\"">> \o escaped(s) \o <<"\"">>

\* JSON.stringify of an object whose members are strings
RECURSIVE members(_, _)
members(keys, values) ==
  IF keys = <<>> THEN <<>>
  ELSE quoted(Head(keys)) \o <<":">> \o quoted(Head(values))
       \o (IF Len(keys) > 1 THEN <<",">> ELSE <<>>) \o members(Tail(keys), Tail(values))

stringify(keys, values) == <<"{">> \o members(keys, values) \o <<"}">>

\* response.ok
okStatus(status) == status >= 200 /\ status <= 299

\* a save that clears the dirty flag whatever the response
saveClearing(f, selected, content, dirty) ==
  LET r == UpdateJSON(f, stringify(<<<<"f", "i", "l", "e", "n", "a", "m", "e">>, <<"c", "o", "n", "t", "e", "n", "t">>>>, <<selected, content>>))
  IN [fs |-> r.fs, status |-> r.status, msg |-> "Success", hasChanges |-> FALSE]

\* handleSaveNote: the disk and the dirty flag it leaves, the status of the
\* update request (0 when none is sent) and the toast
handleSaveNote(f, selected, content, dirty) ==
  IF selected = NULL
    THEN [fs |-> f, status |-> 0, msg |-> "Error", hasChanges |-> dirty]
  ELSE the({IF okStatus(r.status)
              THEN [fs |-> r.fs, status |-> r.status, msg |-> "Success",
                    hasChanges |-> FALSE]
            ELSE [fs |-> r.fs, status |-> r.status, msg |-> "Error",
                  hasChanges |-> dirty] :
            r \in {UpdateJSON(f, stringify(<<<<"f", "i", "l", "e", "n", "a", "m", "e">>, <<"c", "o", "n", "t", "e", "n", "t">>>>,
                                           <<selected, content>>))}})

\* the Save button is enabled while the buffer is dirty
UISave ==
  /\ hasChanges
  /\ \E s \in {handleSaveNote(fs, selectedNote, editorContent, hasChanges)} :
       /\ Handled("save", selectedNote, editorContent, s.status, s.msg)
       /\ withinBounds(s.fs)
       /\ fs' = s.fs
       /\ hasChanges' = s.hasChanges
       /\ UNCHANGED <<fileTree, selectedNote, editorContent>>

\* fetchFileTree: the tree it leaves
fetchFileTree(f, tree) ==
  the({IF r.status = 200 THEN r.out ELSE tree : r \in {TreeGET(f)}})

\* handleNewNoteConfirm: create, then on success the tree fetch and the selection
handleNewNoteConfirm(f, tree, selected, filename) ==
  the({IF okStatus(r.status)
         THEN [fs |-> r.fs, status |-> r.status, msg |-> "Success",
               fileTree |-> fetchFileTree(r.fs, tree), selectedNote |-> r.out]
       ELSE [fs |-> r.fs, status |-> r.status, msg |-> "Error",
             fileTree |-> tree, selectedNote |-> selected] :
       r \in {CreateJSON(f, stringify(<<<<"f", "i", "l", "e", "n", "a", "m", "e">>>>, <<filename>>))}})

\* the names given in the New Note dialog
NewNoteNames == {draft, <<"a">>, <<" ">>}

\* handleCreateNewNote and handleNewNoteConfirm: New Note is pressed, the
\* discard prompt answered should it be shown, and a name confirmed in the dialog
UINewNote ==
  \E filename \in NewNoteNames, answer \in BOOLEAN :
    \E c \in {confirmDiscard(hasChanges, answer)} :
      \E n \in {IF c.go THEN handleNewNoteConfirm(fs, fileTree, selectedNote, filename)
                ELSE [fs |-> fs, status |-> 0, msg |-> "", fileTree |-> fileTree,
                      selectedNote |-> selectedNote]} :
        \E e \in {selectionEffect(n.fs, selectedNote, n.selectedNote, editorContent, hasChanges)} :
          /\ (~c.asked => answer)
          /\ Recorded("newNote", filename, <<>>, prompt(c, answer), n.status, n.msg)
          /\ fs' = n.fs
          /\ fileTree' = n.fileTree
          /\ selectedNote' = n.selectedNote
          /\ editorContent' = e.editorContent
          /\ hasChanges' = e.hasChanges

\* handleConfirmDelete: delete, then on success the tree fetch; the selection
\* and the buffer are cleared if the selected note is gone with it
handleConfirmDelete(f, tree, selected, content, noteToDelete) ==
  LET gone == selected = noteToDelete
              \/ (selected # NULL /\ startsWith(selected, noteToDelete \o <<"/">>))
  IN the({IF okStatus(r.status)
            THEN [fs |-> r.fs, status |-> r.status, msg |-> "Success",
                  fileTree |-> fetchFileTree(r.fs, tree),
                  selectedNote |-> IF gone THEN NULL ELSE selected,
                  editorContent |-> IF gone THEN <<>> ELSE content]
          ELSE [fs |-> r.fs, status |-> r.status, msg |-> "Error", fileTree |-> tree,
                selectedNote |-> selected, editorContent |-> content] :
          r \in {DeleteJSON(f, stringify(<<<<"p", "a", "t", "h">>>>, <<noteToDelete>>))}})

\* the bin of a node is pressed and the deletion confirmed
UIDelete ==
  \E node \in treeNodes(fileTree) :
    \E d \in {handleConfirmDelete(fs, fileTree, selectedNote, editorContent, node.path)} :
      \E e \in {selectionEffect(d.fs, selectedNote, d.selectedNote, d.editorContent, hasChanges)} :
        /\ Handled("delete", node.path, <<>>, d.status, d.msg)
        /\ fs' = d.fs
        /\ fileTree' = d.fileTree
        /\ selectedNote' = d.selectedNote
        /\ editorContent' = e.editorContent
        /\ hasChanges' = e.hasChanges

NextEditor ==
  UIFetchTree \/ UIFileClick \/ UIEditorChange \/ UISave \/ UINewNote \/ UIDelete \/ Settle

SpecEditor == Init /\ [][NextEditor]_vars

-----------------------------------------------------------------------------
(* The editor's dirty flag and the discard prompt.                             *)

\* C18: a keystroke in the editor leaves the dirty flag true; a save clears the
\* flag exactly when the update request succeeded, and after a save that failed
\* the flag is still true, the buffer is as it was and the disk is as the one
\* failed request left it: nothing was sent again.
C18_DirtyUntilSaved ==
  /\ last.op = "editorChange" => hasChanges /\ editorContent = last.a1
  /\ last.op = "save" =>
       /\ prev.hasChanges
       /\ editorContent = prev.editorContent
       /\ hasChanges = ~okStatus(last.status)
       /\ ~okStatus(last.status) => fs = prev.fs
       /\ okStatus(last.status) =>
            /\ child(notesDir, prev.selectedNote) \in DOMAIN fs
            /\ fs[child(notesDir, prev.selectedNote)].content = editorContent

\* C18 witness: a save whose update request the server refused.
C18_Witness ==
  /\ last.op = "save" /\ last.status >= 400
  /\ hasChanges /\ editorContent = world

\* C19: a click on a tree node or on New Note asks for the discard confirmation
\* exactly when the dirty flag is set; when the user declines, the selection,
\* the buffer, the dirty flag, the tree and the disk are as before and no
\* request was sent.
C19_DiscardPrompt ==
  last.op \in {"fileClick", "newNote"} =>
    /\ prev.hasChanges => last.a3 \in {"confirmed", "declined"}
    /\ ~prev.hasChanges => last.a3 = ""
    /\ last.a3 = "declined" =>
         /\ selectedNote = prev.selectedNote
         /\ editorContent = prev.editorContent
         /\ hasChanges = prev.hasChanges
         /\ fileTree = prev.fileTree
         /\ fs = prev.fs
         /\ last.status = 0

\* C19 witness: with a dirty buffer another note was clicked and the prompt
\* declined.
C19_Witness ==
  /\ last.op = "fileClick" /\ last.a3 = "declined"
  /\ last.a1 # selectedNote /\ hasChanges /\ editorContent = world

-----------------------------------------------------------------------------
(* Handlers in flight.  A handler of the notes pane or of the chat pane sends  *)
(* its requests one after the other and awaits each response; the server may   *)
(* serve the requests of different handlers in any order and their responses   *)
(* may arrive in any order.  flight holds the handlers that have not returned: *)
(* stage names the request that is out ("create", "update", "rename",          *)
(* "delete", "list"), or "apply" for a listing that is on its way back and     *)
(* "failed" for an error response that is on its way back.                     *)

MaxStarted == 3

Mutations == {"newNote", "rename", "delete", "chatSave"}

\* a handler as it starts; selected is the selection its closure holds
handler(op, a1, a2, stage) ==
  [id |-> pc, op |-> op, a1 |-> a1, a2 |-> a2, stage |-> stage, status |-> 0,
   filename |-> <<>>, listed |-> FALSE, tree |-> <<>>, selected |-> selectedNote]

\* the dialog of a handler is open: New Note, Rename and Delete close theirs in
\* the finally block, the chat pane closes its own before it asks for the tree
modal(h) ==
  \/ h.op \in {"newNote", "rename", "delete"}
  \/ h.op = "chatSave" /\ h.stage \in {"create", "update", "failed"}

\* the user can start something: no dialog is open
idle == pc < MaxStarted /\ \A h \in flight : ~modal(h)

Started(h) ==
  /\ flight' = flight \cup {h}
  /\ pc' = pc + 1
  /\ UNCHANGED <<fs, prev, last, fileTree, selectedNote, editorContent, hasChanges, chat>>

\* the effect that fetches the tree when the pane mounts
AsyncMount == pc = 0 /\ Started(handler("fetchFileTree", <<>>, <<>>, "list"))

\* New Note with a name confirmed in its dialog
AsyncNewNote ==
  /\ idle /\ pc > 0
  /\ confirmDiscard(hasChanges, FALSE).go
  /\ Started(handler("newNote", draft, <<>>, "create"))

\* handleRename of a node of the tree: the new path keeps the folder of the old
AsyncRename ==
  \E node \in treeNodes(fileTree), newName \in {<<"b">>} :
    LET finalNewName == IF endsWith(newName, MD) THEN newName ELSE newName \o MD
        newPath == SubSeq(node.path, 1, Len(node.path) - Len(basename(node.path)))
                   \o finalNewName
    IN /\ idle
       /\ node.path # newPath
       /\ Started(handler("rename", node.path, newPath, "rename"))

\* handleConfirmDelete of a node of the tree
AsyncDelete ==
  \E node \in treeNodes(fileTree) :
    idle /\ Started(handler("delete", node.path, <<>>, "delete"))

\* handleCreateNewNoteAndSave of the chat pane: the text typed is saved to a
\* new note
AsyncChatSave ==
  /\ idle /\ pc > 0
  /\ Started(handler("chatSave", <<"n">>, world, "create"))

\* the response to the request a handler has out
respond(f, h) ==
  IF h.stage = "create"
    THEN CreateJSON(f, stringify(<<<<"f", "i", "l", "e", "n", "a", "m", "e">>>>, <<h.a1>>))
  ELSE IF h.stage = "update"
    THEN UpdateJSON(f, stringify(<<<<"f", "i", "l", "e", "n", "a", "m", "e">>, <<"c", "o", "n", "t", "e", "n", "t">>, <<"a", "c", "t", "i", "o", "n">>>>,
                                 <<h.filename, h.a2, <<"o", "v", "e", "r", "w", "r", "i", "t", "e">>>>))
  ELSE IF h.stage = "rename"
    THEN RenameJSON(f, stringify(<<<<"o", "l", "d", "P", "a", "t", "h">>, <<"n", "e", "w", "P", "a", "t", "h">>>>, <<h.a1, h.a2>>))
  ELSE IF h.stage = "delete"
    THEN DeleteJSON(f, stringify(<<<<"p", "a", "t", "h">>>>, <<h.a1>>))
  ELSE TreeGET(f)

\* the handler once the response r has reached it: a failed mutation ends it,
\* a chat save goes from create to update, and every mutation that succeeded
\* goes on to fetchFileTree, whose own failure is caught inside it
awaited(h, r) ==
  IF h.stage = "list"
    THEN [h EXCEPT !.stage = "apply", !.listed = r.status = 200, !.tree = r.out]
  ELSE IF ~okStatus(r.status) THEN [h EXCEPT !.stage = "failed", !.status = r.status]
  ELSE IF h.stage = "create"
    THEN [h EXCEPT !.stage = IF h.op = "chatSave" THEN "update" ELSE "list",
                   !.status = r.status, !.filename = r.out]
  ELSE [h EXCEPT !.stage = "list", !.status = r.status]

\* the server serves the request of one of the handlers in flight
AsyncServe ==
  \E h \in flight :
    \E r \in {respond(fs, h)} :
      /\ h.stage \notin {"apply", "failed"}
      /\ withinBounds(r.fs)
      /\ fs' = r.fs
      /\ flight' = (flight \ {h}) \cup {awaited(h, r)}
      /\ UNCHANGED <<prev, last, fileTree, selectedNote, editorContent, hasChanges, chat, pc>>

\* the selection a handler sets after its tree fetch
selectionAfter(h, selected) ==
  IF h.op = "newNote" THEN h.filename
  ELSE IF h.op = "rename" THEN (IF h.selected = h.a1 THEN h.a2 ELSE selected)
  ELSE IF h.op = "delete"
    THEN (IF h.selected = h.a1
             \/ (h.selected # NULL /\ startsWith(h.selected, h.a1 \o <<"/">>))
            THEN NULL ELSE selected)
  ELSE selected

\* the last response of a handler arrives and the handler runs to its end:
\* setFileTree with the listing received, then the selection
AsyncReturn ==
  \E h \in flight :
    /\ h.stage \in {"apply", "failed"}
    /\ last = NoRequest
    /\ last' = [op |-> h.op, a1 |-> h.a1, a2 |-> h.a2, a3 |-> "", status |-> h.status,
                msg |-> IF h.stage = "apply" THEN "Success" ELSE "Error", out |-> <<>>]
    /\ prev' = Snapshot
    /\ flight' = flight \ {h}
    /\ fileTree' = IF h.stage = "apply" /\ h.listed THEN h.tree ELSE fileTree
    /\ \E s \in {IF h.stage = "apply" THEN selectionAfter(h, selectedNote)
                 ELSE selectedNote} :
         \E e \in {selectionEffect(fs, selectedNote, s, editorContent, hasChanges)} :
           /\ selectedNote' = s
           /\ editorContent' = e.editorContent
           /\ hasChanges' = e.hasChanges
    /\ UNCHANGED <<fs, chat, pc>>

NextAsync ==
  \/ AsyncMount \/ AsyncNewNote \/ AsyncRename \/ AsyncDelete \/ AsyncChatSave
  \/ AsyncServe \/ AsyncReturn \/ Settle

SpecAsync == Init /\ [][NextAsync]_vars

-----------------------------------------------------------------------------
(* Delete and rename: what they leave alone.                                   *)

\* POST /api/notes/delete, the version that deletes files only
DeleteFilePOST(f, notePath) ==
  LET fullPath == join(notesDir, notePath)
      u == unlinkSync(f, fullPath)
  IN IF notePath = <<>> THEN Reply(f, 400, "Path is required", <<>>)
     ELSE IF ~existsSync(f, fullPath) THEN Reply(f, 404, "File not found", <<>>)
     ELSE IF u.code = "OK" THEN Reply(u.fs, 200, "Note deleted successfully", <<>>)
     ELSE Reply(u.fs, 500, "Failed to delete note", <<>>)

DeleteFile ==
  \E notePath \in DeletePaths \cup {<<"a", ".", "m", "d">>, <<"d", "/", "c", ".", "m", "d">>} :
    Serve(Request("deleteFile", notePath, <<>>, ""), DeleteFilePOST(fs, notePath))

\* renames of a note, of a folder with its subtree, of a note that is not
\* there, into a folder that is not there, below a note, and of a folder into
\* itself
RenameCases ==
  {<<<<"a", ".", "m", "d">>, <<"b", ".", "m", "d">>>>, <<<<"d">>, <<"g">>>>, <<<<"g", "/", "e">>, <<"k">>>>, <<<<"d", "/", "c", ".", "m", "d">>, <<"c", ".", "m", "d">>>>,
   <<<<"z", "z", ".", "m", "d">>, <<"b", ".", "m", "d">>>>, <<<<"a", ".", "m", "d">>, <<"n", "x", "/", "b", ".", "m", "d">>>>, <<<<"a", ".", "m", "d">>, <<"d", "/", "c", ".", "m", "d", "/", "b", ".", "m", "d">>>>,
   <<<<"d">>, <<"d", "/", "e", "/", "h">>>>, <<<<"b", ".", "m", "d">>, <<"d">>>>}

RenameCase ==
  \E pair \in RenameCases :
    Serve(Request("rename", pair[1], pair[2], ""), RenamePOST(fs, pair[1], pair[2]))

NextFiles == Create \/ Delete \/ DeleteFile \/ RenameCase \/ Settle

SpecFiles == Init /\ [][NextFiles]_vars

\* the entry a request path names on the disk
named(notePath) == noTrail(join(notesDir, notePath))

\* q is neither p nor below p
apart(p, q) == q # p /\ ~below(p, q)

\* C21: after a delete that succeeded, every file and directory that is neither
\* the path deleted nor below it is there as before and nothing was added; a
\* delete of a path at which nothing exists answers 404 and changes nothing.
C21_DeleteLeavesTheRest ==
  last.op \in {"delete", "deleteFile"} =>
    /\ last.status = 200 =>
         /\ \A q \in DOMAIN prev.fs :
              apart(named(last.a1), q) => q \in DOMAIN fs /\ fs[q] = prev.fs[q]
         /\ DOMAIN fs \subseteq DOMAIN prev.fs
    /\ (last.a1 # <<>> /\ named(last.a1) \notin DOMAIN prev.fs) =>
         last.status = 404 /\ fs = prev.fs

\* C21 witness: a folder that holds a note and a folder was deleted while notes
\* beside it stayed.
C21_Witness ==
  /\ last.op = "delete" /\ last.status = 200
  /\ named(last.a1) \in DOMAIN prev.fs /\ prev.fs[named(last.a1)].type = "dir"
  /\ \E q \in DOMAIN prev.fs : below(named(last.a1), q) /\ prev.fs[q].type = "dir"
  /\ \E q \in DOMAIN fs : below(notesDir, q) /\ fs[q].type = "file"

\* what a rename from A to B has to leave: nothing at A, at B what A held, and
\* everything else as before
renamed(before, after, A, B) ==
  LET moved == {q \in DOMAIN before : q = A \/ below(A, q)}
      to(q) == B \o SubSeq(q, Len(A) + 1, Len(q))
  IN /\ DOMAIN after = (DOMAIN before \ moved) \cup {to(q) : q \in moved}
     /\ \A q \in moved : after[to(q)] = before[q]
     /\ \A q \in DOMAIN before \ moved : after[q] = before[q]

\* a rename of a path that does not exist answers 404 and changes nothing
missingSource ==
  (last.op = "rename" /\ ~existsSync(prev.fs, join(notesDir, last.a1)))
  => last.status = 404 /\ fs = prev.fs

-----------------------------------------------------------------------------
(* Route handlers served concurrently.  A handler runs until its next await    *)
(* and is resumed when the awaited call has been made; between two awaits of   *)
(* one handler any other handler may run.  Here flight holds the handlers the  *)
(* server was sent: stage names the await a handler is suspended at ("done"    *)
(* once it has answered), path the file path it has worked out, overlap tells  *)
(* whether another handler was unanswered when it arrived.  last records the   *)
(* handler that ran last, with the stage it ran from in msg.                   *)

Ids == {"p", "q"}

RaceRequests ==
  {Request("create", draft, <<>>, ""), Request("create", <<"/", "d", "r", "a", "f", "t">>, <<>>, ""),
   Request("create", <<"a">>, <<>>, ""),
   Request("rename", <<"a", ".", "m", "d">>, <<"b", ".", "m", "d">>, ""), Request("rename", <<"d", "/", "c", ".", "m", "d">>, <<"b", ".", "m", "d">>, ""),
   Request("delete", <<"a", ".", "m", "d">>, <<>>, ""),
   Request("update", <<"a", ".", "m", "d">>, world, "append"),
   Request("update", <<"a", ".", "m", "d">>, world, "overwrite")}

\* the handler of a request as it is entered
served(id, req) ==
  [id |-> id, op |-> req.op, a1 |-> req.a1, a2 |-> req.a2, a3 |-> req.a3,
   stage |-> IF req.op = "create" THEN "mkdir" ELSE "json",
   status |-> 0, out |-> <<>>, path |-> <<>>,
   overlap |-> \E g \in flight : g.stage # "done"]

\* the handler answers
answer(f, h, status, out) ==
  [fs |-> f, h |-> [h EXCEPT !.stage = "done", !.status = status, !.out = out]]

\* the handler is suspended at its next await
await(f, h, stage) == [fs |-> f, h |-> [h EXCEPT !.stage = stage]]

\* a create handler that tests for the file with fs.access and then writes
\* without the exclusive flag
createStepAccessFirst(f, h) ==
  LET m == mkdirRecursive(f, notesDir)
      s == sanitizeFilename(h.a1)
      w == writeFile(f, h.path, <<>>)
  IN IF h.stage = "mkdir"
       THEN IF m.code # "OK" THEN answer(m.fs, h, 500, <<>>) ELSE await(m.fs, h, "json")
     ELSE IF h.stage = "json"
       THEN IF trim(h.a1) = <<>> \/ ~s.ok THEN answer(f, h, 400, <<>>)
            ELSE IF existsSync(f, join(notesDir, s.name)) THEN answer(f, h, 409, <<>>)
            ELSE await(f, [h EXCEPT !.path = join(notesDir, s.name), !.out = s.name],
                       "write")
     ELSE IF w.code = "OK" THEN answer(w.fs, h, 201, h.out)
     ELSE answer(w.fs, h, 500, <<>>)

\* POST /api/notes/create from one await to the next: fs.mkdir, request.json()
\* followed by the tests and sanitizeFilename, fs.writeFile with flag wx
createStep(f, h) ==
  LET m == mkdirRecursive(f, notesDir)
      s == sanitizeFilename(h.a1)
      w == writeFileExcl(f, h.path, <<>>)
  IN IF h.stage = "mkdir"
       THEN IF m.code # "OK" THEN answer(m.fs, h, 500, <<>>) ELSE await(m.fs, h, "json")
     ELSE IF h.stage = "json"
       THEN IF trim(h.a1) = <<>> \/ ~s.ok THEN answer(f, h, 400, <<>>)
            ELSE await(f, [h EXCEPT !.path = join(notesDir, s.name), !.out = s.name],
                       "write")
     ELSE IF w.code = "OK" THEN answer(w.fs, h, 201, h.out)
     ELSE IF w.code = "EEXIST" THEN answer(w.fs, h, 409, <<>>)
     ELSE answer(w.fs, h, 500, <<>>)

\* a rename handler that awaits its test of the destination and then renames
renameStepAwaiting(f, h) ==
  LET oldFullPath == join(notesDir, h.a1)
      newFullPath == join(notesDir, h.a2)
      r == renameSync(f, oldFullPath, newFullPath)
  IN IF h.stage = "json"
       THEN IF ~existsSync(f, oldFullPath) THEN answer(f, h, 404, <<>>)
            ELSE IF existsSync(f, newFullPath) THEN answer(f, h, 409, <<>>)
            ELSE await(f, h, "run")
     ELSE IF r.code = "OK" THEN answer(r.fs, h, 200, <<>>)
     ELSE answer(r.fs, h, 500, <<>>)

\* POST /api/notes/rename: request.json() is its only await; the two
\* existsSync tests and renameSync run without suspension
renameStep(f, h) ==
  IF h.stage = "json" THEN await(f, h, "run")
  ELSE the({answer(r.fs, h, r.status, <<>>) : r \in {RenamePOST(f, h.a1, h.a2)}})

\* POST /api/notes/delete: request.json() is its only await
deleteStep(f, h) ==
  IF h.stage = "json" THEN await(f, h, "run")
  ELSE the({answer(r.fs, h, r.status, <<>>) : r \in {DeletePOST(f, h.a1)}})

\* POST /api/notes/update: request.json() followed by the tests and
\* validateNotePath, fs.access of the directory, then fs.stat and fs.appendFile
\* or fs.writeFile; an error thrown by the write is answered 500
updateStep(f, h) ==
  LET v == validateNotePath(h.a1)
      dirOfFile == dirname(h.path)
      a == appendFile(f, h.path, <<"\n">> \o h.a2)
      w == writeFile(f, h.path, h.a2)
  IN IF h.stage = "json"
       THEN IF trim(h.a1) = <<>> \/ ~v.ok THEN answer(f, h, 400, <<>>)
            ELSE await(f, [h EXCEPT !.path = v.path], "access")
     ELSE IF h.stage = "access"
       THEN IF errno(f, dirOfFile) = "OK"
              THEN await(f, h, IF h.a3 = "append" THEN "stat" ELSE "write")
            ELSE IF errno(f, dirOfFile) = "ENOENT"
                    /\ (h.a3 = "append" \/ dirOfFile # notesDir)
              THEN answer(f, h, 404, <<>>)
            ELSE answer(f, h, 500, <<>>)
     ELSE IF h.stage = "stat"
       THEN IF errno(f, h.path) # "OK" THEN answer(f, h, 404, <<>>)
            ELSE IF ~isFile(f, h.path) THEN answer(f, h, 400, <<>>)
            ELSE await(f, h, "append")
     ELSE IF h.stage = "append"
       THEN IF a.code = "OK" THEN answer(a.fs, h, 200, <<>>) ELSE answer(a.fs, h, 500, <<>>)
     ELSE IF w.code = "OK" THEN answer(w.fs, h, 200, <<>>)
     ELSE answer(w.fs, h, 500, <<>>)

\* a request arrives
RaceArrive ==
  \E id \in Ids, req \in RaceRequests :
    /\ \A g \in flight : g.id # id
    /\ flight' = flight \cup {served(id, req)}
    /\ UNCHANGED <<fs, prev, last, fileTree, selectedNote, editorContent, hasChanges, chat, pc>>

\* a handler runs from the await it is suspended at to its next one
Resumed(h, r) ==
  /\ h.stage # "done"
  /\ withinBounds(r.fs)
  /\ fs' = r.fs
  /\ flight' = (flight \ {h}) \cup {r.h}
  /\ prev' = Snapshot
  /\ last' = [op |-> h.op, a1 |-> h.a1, a2 |-> h.a2, a3 |-> h.a3, status |-> r.h.status,
              msg |-> h.stage, out |-> h.path]
  /\ UNCHANGED <<fileTree, selectedNote, editorContent, hasChanges, chat, pc>>

RaceCreate == \E h \in flight : h.op = "create" /\ \E r \in {createStep(fs, h)} : Resumed(h, r)
RaceRename == \E h \in flight : h.op = "rename" /\ \E r \in {renameStep(fs, h)} : Resumed(h, r)
RaceDelete == \E h \in flight : h.op = "delete" /\ \E r \in {deleteStep(fs, h)} : Resumed(h, r)
RaceUpdate == \E h \in flight : h.op = "update" /\ \E r \in {updateStep(fs, h)} : Resumed(h, r)

NextRace == RaceArrive \/ RaceCreate \/ RaceRename \/ RaceDelete \/ RaceUpdate

SpecRace == Init /\ [][NextRace]_vars

\* both handlers have answered
answered(g, h) == g.id # h.id /\ g.stage = "done" /\ h.stage = "done"

\* C23: of two create requests whose sanitized filenames are equal and name
\* nothing on the disk at start, however their steps interleave, one is
\* answered 201 and the other 409, and the file is there and empty.
C23_OneCreateWins ==
  \A g, h \in flight :
    (/\ answered(g, h) /\ g.op = "create" /\ h.op = "create"
     /\ g.path = h.path /\ g.path # <<>> /\ g.path \notin DOMAIN Disk0)
    => /\ {g.status, h.status} = {201, 409}
       /\ g.path \in DOMAIN fs /\ fs[g.path] = File(<<>>)

\* C23 witness: two creates with different names that sanitize to the same
\* one have both answered, the second having arrived before the first answered.
C23_Witness ==
  \E g, h \in flight :
    /\ answered(g, h) /\ g.op = "create" /\ h.op = "create"
    /\ g.path = h.path /\ g.path \notin DOMAIN Disk0 /\ g.a1 # h.a1
    /\ h.overlap /\ g.status = 409 /\ h.status = 201

\* C24: a step of a rename handler changes no entry that is on the disk before
\* and after it; and of two renames with different sources, both on the disk
\* at start, and one destination that is not, one is answered 200 and the
\* other 409, and the source of the one answered 409 is as it was.
C24_RenameNeverReplaces ==
  /\ last.op = "rename" =>
       \A q \in DOMAIN prev.fs \cap DOMAIN fs : fs[q] = prev.fs[q]
  /\ \A g, h \in flight :
       (/\ answered(g, h) /\ g.op = "rename" /\ h.op = "rename"
        /\ g.a1 # h.a1 /\ g.a2 = h.a2
        /\ named(g.a1) \in DOMAIN Disk0 /\ named(h.a1) \in DOMAIN Disk0
        /\ named(g.a2) \notin DOMAIN Disk0)
       => /\ {g.status, h.status} = {200, 409}
          /\ g.status = 409 =>
               /\ named(g.a1) \in DOMAIN fs /\ fs[named(g.a1)] = Disk0[named(g.a1)]
               /\ fs[named(g.a2)] = Disk0[named(h.a1)]

\* C24 witness: two renames to one destination have both answered, the second
\* having arrived before the first answered, and the first to arrive lost.
C24_Witness ==
  \E g, h \in flight :
    /\ answered(g, h) /\ g.op = "rename" /\ h.op = "rename"
    /\ g.a1 # h.a1 /\ g.a2 = h.a2 /\ h.overlap
    /\ g.status = 409 /\ h.status = 200
    /\ fs[named(g.a2)] = Disk0[named(h.a1)] /\ named(g.a1) \in DOMAIN fs

\* C25: the step of an append handler that writes the content adds no file: if
\* the note is not there when it runs, the handler answers 404 and the note
\* stays absent.
C25_AppendNeverCreates ==
  (last.op = "update" /\ last.a3 = "append" /\ last.msg = "append"
   /\ last.out \notin DOMAIN prev.fs)
  => last.status = 404 /\ last.out \notin DOMAIN fs

-----------------------------------------------------------------------------
(* Create, then save and read under the name returned.                         *)

\* the filename is one the create endpoint returns
returnedByCreate(filename) ==
  \E raw \in CreateNames : sanitizeFilename(raw).ok /\ sanitizeFilename(raw).name = filename

\* C27: a note that stands in the notes root under a filename the create
\* endpoint returns can be overwritten under that filename, the request is not
\* refused by validateNotePath, and a read of it then returns the content
\* written.
C27_CreatedNoteCanBeSaved ==
  (/\ last.op = "update" /\ last.a3 = "overwrite"
   /\ returnedByCreate(last.a1)
   /\ isFile(prev.fs, join(notesDir, last.a1)))
  => /\ last.status = 200
     /\ ContentGET(fs, last.a1).status = 200
     /\ ContentGET(fs, last.a1).out = last.a2

-----------------------------------------------------------------------------
(* The chat pane's Save to Notes dialog, and the notes pane beside it.  The    *)
(* handlers run to completion.  page.tsx hands the chat pane handleNoteCreated *)
(* (the notes pane's fetchFileTree) and handleNoteUpdated (the notes pane's    *)
(* fetchFileContentForEditor).                                                 *)

\* what a handler of either pane leaves
Left(f, c, tree, content, dirty, status) ==
  [fs |-> f, chat |-> c, fileTree |-> tree, editorContent |-> content,
   hasChanges |-> dirty, status |-> status]

\* proceedWithSave: the update request, then closeModal and the two callbacks
proceedWithSave(f, c, tree, content, dirty, action, targetFilename) ==
  IF c.messageToSave = <<>> \/ targetFilename = NULL
    THEN Left(f, [c EXCEPT !.error = "Missing content or filename."], tree, content, dirty, 0)
  ELSE the({IF okStatus(r.status)
              THEN the({Left(r.fs, ChatClosed, fetchFileTree(r.fs, tree),
                             e.editorContent, e.hasChanges, r.status) :
                        e \in {fetchFileContentForEditor(r.fs, targetFilename)}})
            ELSE Left(r.fs, [c EXCEPT !.error = r.msg, !.isSavingToNote = FALSE],
                      tree, content, dirty, r.status) :
            r \in {UpdateJSON(f, stringify(<<<<"f", "i", "l", "e", "n", "a", "m", "e">>, <<"c", "o", "n", "t", "e", "n", "t">>, <<"a", "c", "t", "i", "o", "n">>>>,
                                           <<targetFilename, c.messageToSave, action>>))}})

\* handleCreateNewNoteAndSave: the create request; 409 leads to the
\* confirm-overwrite step, success to proceedWithSave with the name returned
handleCreateNewNoteAndSave(f, c, tree, content, dirty, newNoteNameInput) ==
  IF trim(newNoteNameInput) = <<>>
    THEN Left(f, [c EXCEPT !.error = "New filename cannot be empty"], tree, content, dirty, 0)
  ELSE IF c.messageToSave = <<>> THEN Left(f, c, tree, content, dirty, 0)
  ELSE the({IF r.status = 409
              THEN Left(r.fs, [c EXCEPT !.step = "confirmOverwrite", !.error = "",
                                        !.fileNameToConfirm = newNoteNameInput,
                                        !.isSavingToNote = FALSE],
                        tree, content, dirty, r.status)
            ELSE IF ~okStatus(r.status)
              THEN Left(r.fs, [c EXCEPT !.error = r.msg, !.isSavingToNote = FALSE],
                        tree, content, dirty, r.status)
            ELSE [proceedWithSave(r.fs, [c EXCEPT !.error = ""], tree, content, dirty,
                                  <<"o", "v", "e", "r", "w", "r", "i", "t", "e">>, r.out) EXCEPT !.status = r.status] :
            r \in {CreateJSON(f, stringify(<<<<"f", "i", "l", "e", "n", "a", "m", "e">>>>, <<newNoteNameInput>>))}})

\* handleConfirmOverwrite: the create request once more, and only when it
\* succeeds proceedWithSave
handleConfirmOverwrite(f, c, tree, content, dirty) ==
  IF c.fileNameToConfirm = <<>>
    THEN Left(f, [c EXCEPT !.error = "Cannot determine filename to overwrite."],
              tree, content, dirty, 0)
  ELSE the({IF ~okStatus(r.status)
              THEN Left(r.fs, [c EXCEPT !.error = r.msg, !.isSavingToNote = FALSE],
                        tree, content, dirty, r.status)
            ELSE the({Left(s.fs, s.chat, fetchFileTree(s.fs, s.fileTree), s.editorContent,
                           s.hasChanges, r.status) :
                      s \in {proceedWithSave(r.fs, c, tree, content, dirty,
                                             <<"o", "v", "e", "r", "w", "r", "i", "t", "e">>, r.out)}}) :
            r \in {CreateJSON(f, stringify(<<<<"f", "i", "l", "e", "n", "a", "m", "e">>>>, <<c.fileNameToConfirm>>))}})

\* a handler of the chat pane has run; a1 is the name it was given and a2 the
\* content that was to be saved
ChatHandled(op, a1, n) ==
  /\ last = NoRequest
  /\ withinBounds(n.fs)
  /\ last' = [op |-> op, a1 |-> a1, a2 |-> chat.messageToSave, a3 |-> "",
              status |-> n.status, msg |-> n.chat.error, out |-> <<>>]
  /\ prev' = Snapshot
  /\ fs' = n.fs
  /\ chat' = n.chat
  /\ fileTree' = n.fileTree
  /\ editorContent' = n.editorContent
  /\ hasChanges' = n.hasChanges
  /\ UNCHANGED <<selectedNote, flight, pc>>

\* the dialog goes from one step to another
ChatShown(c) ==
  /\ last = NoRequest
  /\ chat' = c
  /\ UNCHANGED <<fs, prev, last, fileTree, selectedNote, editorContent, hasChanges, flight, pc>>

\* openSaveNoteModal with text in the input
ChatOpen ==
  /\ ~chat.isOpen
  /\ ChatShown([ChatClosed EXCEPT !.isOpen = TRUE, !.messageToSave = world])

\* Save to New Note... and Choose Different Name
ChatNewFileName ==
  /\ chat.isOpen /\ chat.step \in {"initial", "confirmOverwrite"}
  /\ ChatShown([chat EXCEPT !.step = "newFileName", !.error = ""])

\* Cancel, and a click beside the dialog
ChatClose == chat.isOpen /\ ChatShown(ChatClosed)

\* the names typed in the dialog; its input appends .md
ChatNames == {<<"a", ".", "m", "d">>, <<"n", ".", "m", "d">>}

\* Create & Save
ChatCreateAndSave ==
  \E name \in ChatNames :
    /\ chat.isOpen /\ chat.step = "newFileName"
    /\ \E n \in {handleCreateNewNoteAndSave(fs, chat, fileTree, editorContent,
                                            hasChanges, name)} :
         ChatHandled("chatCreate", name, n)

\* Yes, Overwrite
ChatConfirmOverwrite ==
  /\ chat.isOpen /\ chat.step = "confirmOverwrite"
  /\ \E n \in {handleConfirmOverwrite(fs, chat, fileTree, editorContent, hasChanges)} :
       ChatHandled("chatConfirm", chat.fileNameToConfirm, n)

\* Append to and Overwrite: the selected note; the buttons are disabled while
\* no note is selected
ChatSaveSelected ==
  \E action \in {<<"a", "p", "p", "e", "n", "d">>, <<"o", "v", "e", "r", "w", "r", "i", "t", "e">>} :
    /\ chat.isOpen /\ chat.step = "initial" /\ selectedNote # NULL
    /\ \E n \in {proceedWithSave(fs, chat, fileTree, editorContent, hasChanges,
                                 action, selectedNote)} :
         ChatHandled("chatSave", selectedNote, n)

NextChat ==
  \/ ChatOpen \/ ChatNewFileName \/ ChatClose \/ ChatCreateAndSave \/ ChatConfirmOverwrite
  \/ UIFetchTree \/ UIFileClick \/ Settle

SpecChat == Init /\ [][NextChat]_vars

\* C26: when the create request of the save-to-new-note flow is answered 409
\* the dialog shows the confirm-overwrite step; and when the user confirms
\* while the note is there, the note then holds the content that was being
\* saved, the dialog is closed and the saving indicator is off.
C26_ConfirmedOverwriteSaves ==
  /\ (last.op = "chatCreate" /\ last.status = 409)
     => chat.isOpen /\ chat.step = "confirmOverwrite" /\ ~chat.isSavingToNote
  /\ (last.op = "chatConfirm" /\ isFile(prev.fs, join(notesDir, last.a1)))
     => /\ isFile(fs, join(notesDir, last.a1))
        /\ fs[join(notesDir, last.a1)].content = last.a2
        /\ ~chat.isOpen /\ ~chat.isSavingToNote

-----------------------------------------------------------------------------
(* Rename in the notes pane, and both panes together.                          *)

\* handleRename: the new name gets .md and replaces the last segment of the
\* old path; an unchanged path sends nothing; after a rename that succeeded
\* the tree is fetched and the selection follows the path renamed
handleRename(f, tree, selected, oldPath, newName) ==
  LET finalNewName == IF endsWith(newName, MD) THEN newName ELSE newName \o MD
      newPath == SubSeq(oldPath, 1, Len(oldPath) - Len(basename(oldPath))) \o finalNewName
  IN IF oldPath = newPath
       THEN [fs |-> f, status |-> 0, msg |-> "", fileTree |-> tree, selectedNote |-> selected]
     ELSE the({IF okStatus(r.status)
                 THEN [fs |-> r.fs, status |-> r.status, msg |-> "Success",
                       fileTree |-> fetchFileTree(r.fs, tree),
                       selectedNote |-> IF selected = oldPath THEN newPath ELSE selected]
               ELSE [fs |-> r.fs, status |-> r.status, msg |-> "Error", fileTree |-> tree,
                     selectedNote |-> selected] :
               r \in {RenameJSON(f, stringify(<<<<"o", "l", "d", "P", "a", "t", "h">>, <<"n", "e", "w", "P", "a", "t", "h">>>>,
                                              <<oldPath, newPath>>))}})

\* the names given in the Rename dialog
RenameNames == {<<"b">>}

\* the pencil of a node is pressed and a name confirmed in the Rename dialog
UIRename ==
  \E node \in treeNodes(fileTree), newName \in RenameNames :
    \E d \in {handleRename(fs, fileTree, selectedNote, node.path, newName)} :
      \E e \in {selectionEffect(d.fs, selectedNote, d.selectedNote, editorContent, hasChanges)} :
        /\ Handled("rename", node.path, newName, d.status, d.msg)
        /\ fs' = d.fs
        /\ fileTree' = d.fileTree
        /\ selectedNote' = d.selectedNote
        /\ editorContent' = e.editorContent
        /\ hasChanges' = e.hasChanges

\* a notes root with a note and a folder that holds a note
PaneDisk ==
  [q \in {ROOT, Cwd, notesDir, child(notesDir, <<"a", ".", "m", "d">>), child(notesDir, <<"d">>),
          child(notesDir, <<"d", "/", "c", ".", "m", "d">>)} |->
     IF q = child(notesDir, <<"a", ".", "m", "d">>) THEN File(hello)
     ELSE IF q = child(notesDir, <<"d", "/", "c", ".", "m", "d">>) THEN File(world)
     ELSE Dir]

InitPane ==
  /\ fs = PaneDisk
  /\ ClientInit
  /\ prev = Snapshot
  /\ last = NoRequest
  /\ pc = 0

\* a notes root with a folder that holds a note
SelectDisk ==
  [q \in {ROOT, Cwd, notesDir, child(notesDir, <<"d">>),
          child(notesDir, <<"d", "/", "c", ".", "m", "d">>)} |->
     IF q = child(notesDir, <<"d", "/", "c", ".", "m", "d">>) THEN File(world) ELSE Dir]

InitSelect ==
  /\ fs = SelectDisk
  /\ ClientInit
  /\ prev = Snapshot
  /\ last = NoRequest
  /\ pc = 0

\* the notes pane's changes to the notes directory, with clicks on the tree
NextSelect ==
  \/ UIFetchTree \/ UIFileClick \/ (UINewNote /\ last'.a1 = draft)
  \/ UIRename \/ UIDragEnd \/ UIDelete \/ Settle

SpecSelect == InitSelect /\ [][NextSelect]_vars

\* the editor, with what else reaches its buffer: rename and move of a note
\* and the chat pane's save to the selected note
NextDirty ==
  \/ UIFetchTree \/ UIFileClick \/ UIEditorChange \/ UIRename \/ UIDragEnd
  \/ ChatOpen \/ ChatClose \/ ChatSaveSelected \/ Settle

SpecDirty == InitPane /\ [][NextDirty]_vars

\* the selection names nothing or a note that is on the disk
selectionStands(f, selected) == selected = NULL \/ isNoteAt(f, selected)

\* C28: a successful create, rename, move or delete through the notes pane
\* that starts with nothing selected or an existing note selected ends with
\* nothing selected or an existing note selected.
C28_SelectionNamesANote ==
  (/\ last.op \in {"newNote", "rename", "dragEnd", "delete"}
   /\ last.msg = "Success"
   /\ selectionStands(prev.fs, prev.selectedNote))
    => selectionStands(fs, selectedNote)

\* C29: with unsaved changes, a step of the client that is neither a
\* keystroke nor a save, neither an accepted discard prompt nor a delete of
\* the selected note, leaves the editor's buffer and the flag as they were;
\* so do the rename and the move of the selected note and the chat pane's save.
C29_DirtyBufferKept ==
  (/\ prev.hasChanges
   /\ last # NoRequest
   /\ last.op \notin {"editorChange", "save"}
   /\ last.a3 # "confirmed"
   /\ ~(last.op = "delete" /\ selectedNote # prev.selectedNote))
    => editorContent = prev.editorContent /\ hasChanges

-----------------------------------------------------------------------------
(* The editor's buffer with the requests of the client in flight: a content
   fetch, a save and a chat save are each a request that the server serves at
   some point and whose response reaches the client at some later point. *)

\* a handler of the client that has a request out
request(op, a1, a2, stage) ==
  [id |-> pc, op |-> op, a1 |-> a1, a2 |-> a2, stage |-> stage, status |-> 0,
   content |-> <<>>]

\* the chat pane's dialog is over the page: it stays open until the response
\* to its update request has come
covered == \E h \in flight : h.op = "chatSave" /\ h.stage \in {"update", "updated"}

Requested(h) ==
  /\ pc < MaxStarted
  /\ flight' = flight \cup {h}
  /\ pc' = pc + 1
  /\ UNCHANGED <<fs, prev, last, fileTree, chat>>

\* handleFileClick on a note of the tree, and the effect on selectedNote that
\* calls fetchFileContentForEditor
BufferClick ==
  \E node \in {n \in treeNodes(fileTree) : n.type = "file"}, accepted \in BOOLEAN :
    /\ ~covered
    /\ node.path # selectedNote
    /\ ~hasChanges => accepted
    /\ confirmDiscard(hasChanges, accepted).go
    /\ selectedNote' = node.path
    /\ Requested(request("content", node.path, <<>>, "get"))
    /\ UNCHANGED <<editorContent, hasChanges>>

\* handleEditorChange
BufferType ==
  \E value \in EditorValues :
    /\ ~covered
    /\ selectedNote # NULL
    /\ editorContent' = value
    /\ hasChanges' = TRUE
    /\ UNCHANGED <<fs, prev, last, fileTree, selectedNote, flight, chat, pc>>

\* handleSaveNote up to its fetch: the button is disabled without changes and
\* while a save is out
BufferSave ==
  /\ ~covered
  /\ hasChanges
  /\ selectedNote # NULL
  /\ \A h \in flight : h.op # "save"
  /\ Requested(request("save", selectedNote, editorContent, "update"))
  /\ UNCHANGED <<selectedNote, editorContent, hasChanges>>

\* the chat pane's save of a message to the selected note, up to the fetch of
\* proceedWithSave
BufferChatSave ==
  \E mode \in {<<"a", "p", "p", "e", "n", "d">>, <<"o", "v", "e", "r", "w", "r", "i", "t", "e">>} :
    /\ ~covered
    /\ selectedNote # NULL
    /\ Requested([request("chatSave", selectedNote, world, "update") EXCEPT
                    !.content = mode])
    /\ UNCHANGED <<selectedNote, editorContent, hasChanges>>

\* the server serves the request of one handler
BufferServe ==
  \E h \in flight :
    /\ h.stage \in {"get", "update"}
    /\ \E r \in {IF h.stage = "get" THEN ContentGET(fs, h.a1)
                 ELSE IF h.op = "save"
                   THEN UpdateJSON(fs, stringify(<<<<"f", "i", "l", "e", "n", "a", "m", "e">>, <<"c", "o", "n", "t", "e", "n", "t">>>>,
                                                 <<h.a1, h.a2>>))
                 ELSE UpdateJSON(fs, stringify(<<<<"f", "i", "l", "e", "n", "a", "m", "e">>, <<"c", "o", "n", "t", "e", "n", "t">>, <<"a", "c", "t", "i", "o", "n">>>>,
                                               <<h.a1, h.a2, h.content>>))} :
         /\ withinBounds(r.fs)
         /\ fs' = r.fs
         /\ flight' = (flight \ {h}) \cup
                        {[h EXCEPT !.stage = IF h.stage = "get" THEN "got" ELSE "updated",
                                   !.status = r.status,
                                   !.content = IF h.stage = "get" THEN r.out ELSE <<>>]}
    /\ UNCHANGED <<prev, last, fileTree, selectedNote, editorContent, hasChanges, chat, pc>>

\* the response reaches the handler that waits for it: a content fetch sets
\* the buffer and clears the flag, a save clears the flag, and a chat save
\* closes its dialog and has the page fetch the content of the note it wrote
BufferReturn ==
  \E h \in flight :
    /\ h.stage \in {"got", "updated"}
    /\ last = NoRequest
    /\ last' = [op |-> h.op, a1 |-> h.a1, a2 |-> h.a2, a3 |-> "", status |-> h.status,
                msg |-> h.stage, out |-> h.content]
    /\ prev' = Snapshot
    /\ flight' = IF h.stage = "updated" /\ h.op = "chatSave" /\ okStatus(h.status)
                   THEN (flight \ {h}) \cup {[h EXCEPT !.stage = "get"]}
                 ELSE flight \ {h}
    /\ editorContent' = IF h.stage = "got"
                          THEN (IF h.status = 200 THEN h.content ELSE errorLoading)
                        ELSE editorContent
    /\ hasChanges' = IF h.stage = "got" \/ (h.op = "save" /\ okStatus(h.status))
                       THEN FALSE ELSE hasChanges
    /\ UNCHANGED <<fs, fileTree, selectedNote, chat, pc>>

NextBuffer ==
  \/ UIFetchTree \/ BufferClick \/ BufferType \/ BufferSave \/ BufferChatSave
  \/ BufferServe \/ BufferReturn \/ Settle

SpecBuffer == InitPane /\ [][NextBuffer]_vars

\* C30: with no request in flight and no unsaved changes, the editor's buffer
\* is the content on disk of the selected note.
C30_CleanBufferIsDisk ==
  (flight = {} /\ ~hasChanges /\ selectedNote # NULL)
    => /\ isNoteAt(fs, selectedNote)
       /\ editorContent = fs[child(notesDir, selectedNote)].content

====
